---- MODULE Spec2Model ----
(***************************************************************************)
(* Horton: the iterative proatom partitioners (Iterative Stockholder and   *)
(* Hirshfeld-I) of horton/part/iterstock.py and horton/part/hirshfeld_i.py.*)
(*                                                                         *)
(* Numbers are fixed-point: every charge, population, density and weight   *)
(* is an integer count of 1/Den.  The change metric np.sqrt(msd) is kept   *)
(* by its square msd (np.sqrt is strictly monotone on msd >= 0), so that   *)
(* "change < threshold" is decided exactly.  Atoms are numbered 1..natom   *)
(* (Python's index + 1).                                                   *)
(***************************************************************************)
EXTENDS Integers, Sequences, FiniteSets, TLC

VARIABLES
    policy,           \* "hi" (HirshfeldIWPart) or "is" (IterativeStockholderWPart)
    threshold,        \* self._threshold
    maxiter,          \* self._maxiter
    pc,               \* position inside do_partitioning
    heap,             \* the live numpy arrays; an array's identity is its place
    cache,            \* self.cache: key -> value (an array entry holds a heap id)
    at_weights,       \* cache entries ('at_weights', i)
    history_propars,  \* self.history_propars
    history_charges,  \* self.history_charges
    counter,          \* local counter
    change,           \* local change
    old_propars,      \* local old_propars
    index,            \* loop variable of _update_propars
    done_just_once,   \* the @just_once mark of do_partitioning
    calls,            \* number of invocations of do_partitioning so far
    kernel,           \* the integration results met so far: (atom, weights) -> result
    q_sys,            \* pure calls: the one-atom system asked about
    q_charges,        \* pure calls: its charges array
    q_greedy,         \* pure calls: the isolated-ion entries of the greedy cache
    q_op,             \* pure calls: the last function called
    q_info,           \* pure calls: the (icharge, x) it computed
    q_result,         \* pure calls: what it returned or raised
    ag_definition,    \* AtomicGridSpec: the definition given to the constructor
    ag_pc,            \* AtomicGridSpec: "none", "ready" (returned) or "raised"
    ag_error,         \* AtomicGridSpec: the exception of the constructor
    ag_name,          \* AtomicGridSpec: self.name
    ag_members,       \* AtomicGridSpec: self.members (has = FALSE: no such attribute)
    ag_op,            \* AtomicGridSpec: the last method called
    ag_args,          \* AtomicGridSpec: its (number, pseudo_number)
    ag_result,        \* AtomicGridSpec: what it returned or raised
    ag_grp,           \* the HDF5 group written by to_hdf5
    ag_reloaded,      \* the members of the AtomicGridSpec made by from_hdf5
    mg_system,        \* BeckeMolGrid: the system given to the constructor
    mg_pc,            \* BeckeMolGrid: "none", "ready" (returned) or "raised"
    mg_mode,          \* BeckeMolGrid: self._mode
    mg_centers,       \* BeckeMolGrid: self._centers
    mg_numbers,       \* BeckeMolGrid: self._numbers
    mg_pseudo_numbers, \* BeckeMolGrid: self._pseudo_numbers
    mg_points,        \* BeckeMolGrid: self.points
    mg_weights,       \* BeckeMolGrid: self.weights
    mg_subgrids,      \* BeckeMolGrid: self.subgrids (none = TRUE: None)
    mg_op,            \* BeckeMolGrid: the last method called
    mg_result,        \* BeckeMolGrid: the exception it raised ("ok": none)
    mg_updates,       \* BeckeMolGrid: number of update_centers calls so far
    bk_centers,       \* becke_helper_atom: the positions of the atoms
    bk_radii,         \* becke_helper_atom: the sizes of the atoms
    bk_point,         \* becke_helper_atom: the grid point
    bk_order,         \* becke_helper_atom: the switching order k
    bk_select,        \* becke_helper_atom: the atom of the last call
    bk_factors,        \* becke_helper_atom: the factor computed by each call
    gc_greedy,        \* greedy cache: self._greedy
    gc_charges,       \* greedy cache: the charges array in the cache
    gc_grids,         \* greedy cache: the grid objects made so far, with address and liveness
    gc_store,         \* greedy cache: the entries of self.cache, key -> array
    gc_seen,          \* greedy cache: the requests of the calls before the last
    gc_op,            \* greedy cache: the last function called
    gc_request,       \* greedy cache: the (index, charge, grid object) it asked for
    gc_new,           \* greedy cache: the requests it evaluated the spline for
    gc_result,        \* greedy cache: the array it returned, or its error
    gc_calls,          \* greedy cache: number of calls so far
    sy_coordinates,   \* System: self._coordinates
    sy_obasis,        \* System: self._obasis (none = TRUE: None)
    sy_obasis_desc,   \* System: whether self._obasis_desc is set
    sy_grid,          \* System: self._grid (none = TRUE: None)
    sy_wfn,           \* System: self._wfn (none = TRUE: None)
    sy_cache,         \* System: the tags of the entries of self._cache
    sy_extra,         \* System: whether self._extra holds anything
    sy_op,            \* System: the last method called
    sy_result,         \* System: the exception it raised ("ok": none)
    atg_number,       \* AtomicGrid: self._number
    atg_pseudo_number,\* AtomicGrid: self._pseudo_number
    atg_center,       \* AtomicGrid: self._center
    atg_random_rotate,\* AtomicGrid: self._random_rotate
    atg_buffer,       \* AtomicGrid: the length of the points argument (none = TRUE: None)
    atg_pc,           \* AtomicGrid: "none", "ready" (returned) or "raised"
    atg_result,       \* AtomicGrid: the exception of the constructor ("ok": none)
    atg_nlls,         \* AtomicGrid: self._nlls
    atg_points,       \* AtomicGrid: self.points
    atg_weights,      \* AtomicGrid: self.weights
    atg_av_weights,   \* AtomicGrid: self._av_weights
    atg_updates,       \* AtomicGrid: number of update_center calls so far
    h5_molecule,      \* BeckeMolGrid file: the system the grid is built for
    h5_agspec,        \* BeckeMolGrid file: the members of self._agspec
    h5_mode,          \* BeckeMolGrid file: self._mode
    h5_pc,            \* BeckeMolGrid file: "none", "ready" (returned) or "raised"
    h5_records,       \* BeckeMolGrid file: the record of the agspec each atom got
    h5_grp,           \* BeckeMolGrid file: the HDF5 group written by to_hdf5
    h5_reloaded,      \* BeckeMolGrid file: the outcome of from_hdf5 and the records of its atoms
    h5_op             \* BeckeMolGrid file: the last method called

partvars == <<policy, threshold, maxiter, pc, heap, cache, at_weights,
              history_propars, history_charges, counter, change, old_propars,
              index, done_just_once, calls, kernel>>
proatomvars == <<q_sys, q_charges, q_greedy, q_op, q_info, q_result>>
agvars == <<ag_definition, ag_pc, ag_error, ag_name, ag_members, ag_op, ag_args,
            ag_result, ag_grp, ag_reloaded>>
mgvars == <<mg_system, mg_pc, mg_mode, mg_centers, mg_numbers, mg_pseudo_numbers,
            mg_points, mg_weights, mg_subgrids, mg_op, mg_result, mg_updates>>
bkvars == <<bk_centers, bk_radii, bk_point, bk_order, bk_select, bk_factors>>
gcvars == <<gc_greedy, gc_charges, gc_grids, gc_store, gc_seen, gc_op,
            gc_request, gc_new, gc_result, gc_calls>>
syvars == <<sy_coordinates, sy_obasis, sy_obasis_desc, sy_grid, sy_wfn,
            sy_cache, sy_extra, sy_op, sy_result>>
atgvars == <<atg_number, atg_pseudo_number, atg_center, atg_random_rotate,
             atg_buffer, atg_pc, atg_result, atg_nlls, atg_points,
             atg_weights, atg_av_weights, atg_updates>>
h5vars == <<h5_molecule, h5_agspec, h5_mode, h5_pc, h5_records, h5_grp,
            h5_reloaded, h5_op>>

vars == <<partvars, proatomvars, agvars, mgvars, bkvars, gcvars, syvars, atgvars, h5vars>>

\* what the partitioning loop leaves alone, and what the pure calls leave alone
notpart == <<proatomvars, agvars, mgvars, bkvars, gcvars, syvars, atgvars, h5vars>>
notproatom == <<partvars, agvars, mgvars, bkvars, gcvars, syvars, atgvars, h5vars>>
notag == <<partvars, proatomvars, mgvars, bkvars, gcvars, syvars, atgvars, h5vars>>
notmg == <<partvars, proatomvars, agvars, bkvars, gcvars, syvars, atgvars, h5vars>>
notbk == <<partvars, proatomvars, agvars, mgvars, gcvars, syvars, atgvars, h5vars>>
notgc == <<partvars, proatomvars, agvars, mgvars, bkvars, syvars, atgvars, h5vars>>
notsy == <<partvars, proatomvars, agvars, mgvars, bkvars, gcvars, atgvars, h5vars>>
notatg == <<partvars, proatomvars, agvars, mgvars, bkvars, gcvars, syvars, h5vars>>
noth5 == <<partvars, proatomvars, agvars, mgvars, bkvars, gcvars, syvars, atgvars>>

-----------------------------------------------------------------------------
(* Bounds of the model *)

\* fixed-point denominator: fractional charges are multiples of 1/Den
Den == 2
\* maxiter is drawn from 0..MaxIter
MaxIter == 2
\* threshold is drawn from 0..MaxThreshold (in 1/Den)
MaxThreshold == 2
\* a Hirshfeld-I pseudo population is drawn from 0..MaxPop (in 1/Den)
MaxPop == 3
\* do_partitioning is invoked at most MaxCalls times
MaxCalls == 3
\* pure calls: target charges are drawn from -MaxCharge..MaxCharge (in 1/Den)
MaxCharge == 8

(* Program constants *)

\* the initial value of the local change, 1e100 (squared like every change)
HugeChange == 1000000
\* the floor of np.clip, 1e-100: the smallest positive fixed-point number
TinyFloor == 1

-----------------------------------------------------------------------------
(* The molecule of the partitioning runs: H and an Li atom with a two-electron
   effective core (number 3, pseudo_number 1).  *)
system == [numbers |-> <<1, 3>>, pseudo_numbers |-> <<1, 1>>]

natom(sys) == Len(sys.numbers)

Atoms == 1..natom(system)

\* rgrid.size of each atom's radial grid (Iterative Stockholder)
rgrid_size == <<1, 2>>

\* rgrid.weights: the radial integration weight of shell s
rgrid_weight(s) == s

zeros(n) == [i \in 1..n |-> 0]

RECURSIVE SumSeq(_)
SumSeq(s) == IF s = <<>> THEN 0 ELSE Head(s) + SumSeq(Tail(s))

-----------------------------------------------------------------------------
(* ProatomDB (horton/part/proatomdb.py): records of isolated atoms and ions *)

\* a record exists for every ion that keeps at least one electron
proatomdb_has_record(number, charge) == number - charge >= 1

\* the record's density on a one-point radial grid of weight 1, normalised
\* to the number of electrons of the ion
proatomdb_record_rho(number, charge) == number - charge

Raise(error) == [tag |-> error, number |-> 0, coeffs |-> <<>>]

\* get_rho(number, {charge: weight, ...}): the weighted records, KeyError
\* when one of them is missing
proatomdb_get_rho(number, coeffs) ==
    IF \A c \in DOMAIN coeffs : proatomdb_has_record(number, c)
    THEN [tag |-> "rho", number |-> number, coeffs |-> coeffs]
    ELSE Raise("KeyError")

\* the value (in 1/Den) of a density returned by get_rho
RECURSIVE rho_sum(_, _)
rho_sum(r, S) ==
    IF S = {} THEN 0
    ELSE LET c == CHOOSE c \in S : TRUE
         IN r.coeffs[c] * proatomdb_record_rho(r.number, c) + rho_sum(r, S \ {c})

rho_value(r) == rho_sum(r, DOMAIN r.coeffs)

-----------------------------------------------------------------------------
(* HirshfeldIMixin: the pro-atom of a fractional charge *)

\* np.floor of a fixed-point number, as an integer
np_floor(c) == c \div Den

\* int() of a fixed-point number: truncation towards zero
int_trunc(c) == IF c >= 0 THEN c \div Den ELSE 0 - ((0 - c) \div Den)

get_interpolation_info_trunc(i, charges) ==
    LET target_charge == charges[i]
        icharge == int_trunc(target_charge)
    IN [icharge |-> icharge, x |-> target_charge - Den * icharge]

get_interpolation_info(i, charges) ==
    LET target_charge == charges[i]
        icharge == np_floor(target_charge)
        x == target_charge - Den * icharge
    IN [icharge |-> icharge, x |-> x]

get_proatom_rho_hi_unit_weight(sys, i, charges) ==
    LET info == get_interpolation_info(i, charges)
        icharge == info.icharge
        x == info.x
        pseudo_pop == sys.pseudo_numbers[i] - icharge
        number == sys.numbers[i]
    IN IF pseudo_pop = 1 \/ x = 0
       THEN proatomdb_get_rho(number, icharge :> Den)
       ELSE IF pseudo_pop > 1
       THEN proatomdb_get_rho(number, (icharge :> (Den - x)) @@ ((icharge + 1) :> x))
       ELSE IF pseudo_pop <= 0
       THEN Raise("ValueError")
       ELSE Raise("None")

get_proatom_rho_hi(sys, i, charges) ==
    LET info == get_interpolation_info(i, charges)
        icharge == info.icharge
        x == info.x
        pseudo_pop == sys.pseudo_numbers[i] - icharge
        number == sys.numbers[i]
    IN IF pseudo_pop = 1 \/ x = 0
       THEN proatomdb_get_rho(number, icharge :> (Den - x))
       ELSE IF pseudo_pop > 1
       THEN proatomdb_get_rho(number, (icharge :> (Den - x)) @@ ((icharge + 1) :> x))
       ELSE IF pseudo_pop <= 0
       THEN Raise("ValueError")
       ELSE Raise("None")


\* get_isolated -> get_somefn with self._greedy: the isolated-ion density of
\* (index, charge) on the atom's grid; the entry is allocated in the cache on
\* the first request.  KeyError when the database has no spline for the ion.
get_isolated(sys, i, charge, greedy) ==
    IF proatomdb_has_record(sys.numbers[i], charge)
    THEN [tag |-> "ok", greedy |-> greedy \cup {<<"isolated", charge, i>>}]
    ELSE [tag |-> "KeyError", greedy |-> greedy]

\* HirshfeldIMixin.eval_proatom, the greedy version
eval_proatom(sys, i, charges, greedy) ==
    LET info == get_interpolation_info(i, charges)
        icharge == info.icharge
        x == info.x
        number == sys.numbers[i]
        iso0 == get_isolated(sys, i, icharge, greedy)
        pseudo_pop == sys.pseudo_numbers[i] - icharge
        iso1 == get_isolated(sys, i, icharge + 1, iso0.greedy)
    IN IF iso0.tag # "ok"
       THEN [result |-> Raise(iso0.tag), greedy |-> iso0.greedy]
       ELSE IF pseudo_pop > 1 /\ x # 0
       THEN IF iso1.tag # "ok"
            THEN [result |-> Raise(iso1.tag), greedy |-> iso1.greedy]
            ELSE [result |-> [tag |-> "rho", number |-> number,
                              coeffs |-> (icharge :> (Den - x)) @@ ((icharge + 1) :> x)],
                  greedy |-> iso1.greedy]
       ELSE IF pseudo_pop <= 0
       THEN [result |-> Raise("ValueError"), greedy |-> iso0.greedy]
       ELSE [result |-> [tag |-> "rho", number |-> number,
                         coeffs |-> icharge :> (Den - x)],
             greedy |-> iso0.greedy]

-----------------------------------------------------------------------------
(* IterativeStockholderWPart: the pro-atom is a density on the radial grid *)

\* self._ranges as _init_propars builds it: [0, size_1, size_1 + size_2, ...]
RECURSIVE build_ranges(_, _)
build_ranges(acc, idx) ==
    IF idx > natom(system) THEN acc
    ELSE build_ranges(Append(acc, acc[Len(acc)] + rgrid_size[idx]), idx + 1)

ranges == build_ranges(<<0>>, 1)

\* propars[self._ranges[index]:self._ranges[index+1]]
get_proatom_rho_is(i, propars) == SubSeq(propars, ranges[i] + 1, ranges[i + 1])

-----------------------------------------------------------------------------
(* IterativeProatomMixin.compute_change: the squared change, or the error
   raised while the pro-atoms are evaluated *)

\* the largest squared change of a charge (the measure of the docstrings of
\* HirshfeldIWPart and HirshfeldICPart)
RECURSIVE compute_change_hi_max_charge(_, _, _, _)
compute_change_hi_max_charge(idx, propars1, propars2, msd) ==
    IF idx > natom(system) THEN [tag |-> "ok", value |-> msd]
    ELSE LET d == propars1[idx] - propars2[idx]
         IN compute_change_hi_max_charge(idx + 1, propars1, propars2,
                                         IF d * d > msd THEN d * d ELSE msd)

RECURSIVE compute_change_hi(_, _, _, _)
compute_change_hi(idx, propars1, propars2, msd) ==
    IF idx > natom(system) THEN [tag |-> "ok", value |-> msd]
    ELSE LET rho1 == get_proatom_rho_hi(system, idx, propars1)
             rho2 == get_proatom_rho_hi(system, idx, propars2)
             delta == rho_value(rho1) - rho_value(rho2)
         IN IF rho1.tag # "rho" THEN [tag |-> rho1.tag, value |-> 0]
            ELSE IF rho2.tag # "rho" THEN [tag |-> rho2.tag, value |-> 0]
            ELSE compute_change_hi(idx + 1, propars1, propars2, msd + delta * delta)

\* rgrid.integrate(delta, delta) on the atom's radial grid
rgrid_integrate_sq(delta) ==
    SumSeq([s \in 1..Len(delta) |-> rgrid_weight(s) * delta[s] * delta[s]])

RECURSIVE compute_change_is(_, _, _, _)
compute_change_is(idx, propars1, propars2, msd) ==
    IF idx > natom(system) THEN [tag |-> "ok", value |-> msd]
    ELSE LET rho1 == get_proatom_rho_is(idx, propars1)
             rho2 == get_proatom_rho_is(idx, propars2)
             delta == [s \in 1..Len(rho1) |-> rho1[s] - rho2[s]]
         IN compute_change_is(idx + 1, propars1, propars2,
                              msd + rgrid_integrate_sq(delta))

compute_change(propars1, propars2) ==
    IF policy = "hi" THEN compute_change_hi(1, propars1, propars2, 0)
    ELSE compute_change_is(1, propars1, propars2, 0)

\* change < self._threshold, with change = sqrt(msd) >= 0
below_threshold_or_equal(msd, thr) == thr >= 0 /\ msd <= thr * thr

below_threshold(msd, thr) == thr > 0 /\ msd < thr * thr


-----------------------------------------------------------------------------
(* The cache and the arrays *)

in_cache(key) == key \in DOMAIN cache

\* cache.dump(key, value)
dump(c, key, value) == (key :> value) @@ c

\* the contents of the array cached under key
load(key) == heap[cache[key]]

\* ndarray.copy(): a new array with the contents of the moment
alias_array(id) == [copy |-> FALSE, val |-> <<>>, ref |-> id]

np_copy(id) == [copy |-> TRUE, val |-> heap[id], ref |-> 0]

\* the contents of a history entry as a reader finds them
deref(e) == IF e.copy THEN e.val ELSE heap[e.ref]

\* np.array(history): the contents of all entries
np_array(history) == [k \in 1..Len(history) |-> deref(history[k])]

\* arr[a:b] = vals
assign_slice(arr, a, b, vals) ==
    [k \in 1..Len(arr) |-> IF a < k /\ k <= b THEN vals[k - a] ELSE arr[k]]

no_clip(v, floor) == v

\* np.clip(v, floor, np.inf)
np_clip(v, floor) == IF v < floor THEN floor ELSE v

\* the stockholder weights of all atoms derived from the pro-atoms propars
\* (StockholderWPart.update_at_weights)
stockholder_weights(propars) == [i \in Atoms |-> [atom |-> i, proatoms |-> propars]]

\* compute_pseudo_population / atgrid.integrate(at_weights, dens, ...): a
\* function of the atom's weights (the molecular density is fixed); the
\* value is chosen when the weights are met for the first time
kernel_key(i) == <<i, at_weights[i]>>

kernel_results(i, domain) ==
    IF kernel_key(i) \in DOMAIN kernel THEN {kernel[kernel_key(i)]} ELSE domain

\* integrals of one atom's shells: multiples of the radial weights, below
\* and above the floor
shell_integrals(i) ==
    [1..rgrid_size[i] -> {0 - TinyFloor, 2 * TinyFloor}]

radial_results_of(i) ==
    {[s \in 1..rgrid_size[i] |-> a[s] * rgrid_weight(s)] : a \in shell_integrals(i)}

-----------------------------------------------------------------------------
(* do_partitioning *)

\* lines 79-81: is there anything to compute
is_new ==
    \/ \E i \in Atoms : i \notin DOMAIN at_weights
    \/ ~in_cache("niter")
    \/ ~in_cache("change")

init_propars_hi_two_arrays ==
    LET fresh == ~in_cache("charges")
        id == IF fresh THEN Len(heap) + 1 ELSE cache["charges"]
    IN /\ heap' = IF fresh
                  THEN Append(Append(heap, zeros(natom(system))), zeros(natom(system)))
                  ELSE heap
       /\ cache' = dump(dump(cache, "charges", id), "propars",
                        IF fresh THEN id + 1 ELSE cache["propars"])
       /\ history_propars' = <<>>
       /\ history_charges' = <<>>

\* _init_propars of the two policies: the history lists are emptied and the
\* propars array is loaded from the cache, allocated with zeros when absent
init_propars_hi ==
    LET fresh == ~in_cache("charges")
        id == IF fresh THEN Len(heap) + 1 ELSE cache["charges"]
    IN /\ heap' = IF fresh THEN Append(heap, zeros(natom(system))) ELSE heap
       /\ cache' = dump(dump(cache, "charges", id), "propars", id)
       /\ history_propars' = <<>>
       /\ history_charges' = <<>>

init_propars_is ==
    LET fresh == ~in_cache("propars")
        id == IF fresh THEN Len(heap) + 1 ELSE cache["propars"]
    IN /\ heap' = IF fresh THEN Append(heap, zeros(ranges[Len(ranges)])) ELSE heap
       /\ cache' = dump(cache, "propars", id)
       /\ history_propars' = <<>>
       /\ history_charges' = <<>>

do_partitioning_always ==
    /\ pc \in {"idle", "done"}
    /\ calls < MaxCalls
    /\ calls' = calls + 1
    /\ IF policy = "hi" THEN init_propars_hi ELSE init_propars_is
    /\ counter' = 0
    /\ change' = HugeChange
    /\ pc' = "loop"
    /\ UNCHANGED <<policy, threshold, maxiter, at_weights, old_propars, index,
                   done_just_once, kernel>>
    /\ UNCHANGED notpart

do_partitioning_test_first ==
    /\ pc \in {"idle", "done"}
    /\ calls < MaxCalls
    /\ calls' = calls + 1
    /\ IF done_just_once
       THEN UNCHANGED <<pc, heap, cache, history_propars, history_charges,
                        counter, change, done_just_once>>
       ELSE IF ~is_new
       THEN /\ done_just_once' = TRUE
            /\ pc' = "done"
            /\ UNCHANGED <<heap, cache, history_propars, history_charges,
                           counter, change>>
       ELSE /\ IF policy = "hi" THEN init_propars_hi ELSE init_propars_is
            /\ counter' = 0
            /\ change' = HugeChange
            /\ pc' = "test"
            /\ UNCHANGED done_just_once
    /\ UNCHANGED <<policy, threshold, maxiter, at_weights, old_propars, index, kernel>>
    /\ UNCHANGED notpart

\* the call: the @just_once wrapper, the check of lines 79-82, lines 84-93
do_partitioning ==
    /\ pc \in {"idle", "done"}
    /\ calls < MaxCalls
    /\ calls' = calls + 1
    /\ IF done_just_once
       THEN UNCHANGED <<pc, heap, cache, history_propars, history_charges,
                        counter, change, done_just_once>>
       ELSE IF ~is_new
       THEN /\ done_just_once' = TRUE
            /\ pc' = "done"
            /\ UNCHANGED <<heap, cache, history_propars, history_charges,
                           counter, change>>
       ELSE /\ IF policy = "hi" THEN init_propars_hi ELSE init_propars_is
            /\ counter' = 0
            /\ change' = HugeChange
            /\ pc' = "loop"
            /\ UNCHANGED done_just_once
    /\ UNCHANGED <<policy, threshold, maxiter, at_weights, old_propars, index, kernel>>
    /\ UNCHANGED notpart

\* lines 96-99: counter += 1; old_propars = propars.copy()
loop_begin ==
    /\ pc = "loop"
    /\ counter' = counter + 1
    /\ old_propars' = deref(np_copy(cache["propars"]))
    /\ pc' = "history_propars"
    /\ UNCHANGED <<policy, threshold, maxiter, heap, cache, at_weights,
                   history_propars, history_charges, change, index,
                   done_just_once, calls, kernel>>
    /\ UNCHANGED notpart

\* line 54
append_history_propars ==
    /\ pc = "history_propars"
    /\ history_propars' = Append(history_propars, np_copy(cache["propars"]))
    /\ pc' = "update_at_weights"
    /\ UNCHANGED <<policy, threshold, maxiter, heap, cache, at_weights,
                   history_charges, counter, change, old_propars, index,
                   done_just_once, calls, kernel>>
    /\ UNCHANGED notpart

\* line 57: every atom's weights from the pro-atoms of the moment; with
\* Hirshfeld-I every pro-atom must be available
update_at_weights ==
    /\ pc = "update_at_weights"
    /\ LET bad == {i \in Atoms :
                     policy = "hi" /\ get_proatom_rho_hi(system, i, load("propars")).tag # "rho"}
       IN IF bad = {}
          THEN /\ at_weights' = stockholder_weights(load("propars"))
               /\ index' = 1
               /\ pc' = "update_atom"
          ELSE /\ pc' = "error"
               /\ UNCHANGED <<at_weights, index>>
    /\ UNCHANGED <<policy, threshold, maxiter, heap, cache, history_propars,
                   history_charges, counter, change, old_propars,
                   done_just_once, calls, kernel>>
    /\ UNCHANGED notpart


\* HirshfeldIMixin._update_propars_atom
update_propars_atom_hi_gauss_seidel ==
    /\ pc = "update_atom"
    /\ policy = "hi"
    /\ index <= natom(system)
    /\ at_weights' = stockholder_weights(load("propars"))
    /\ LET key == <<index, at_weights'[index]>>
           results == IF key \in DOMAIN kernel THEN {kernel[key]} ELSE 0..MaxPop
       IN \E pseudo_population \in results :
            /\ kernel' = (key :> pseudo_population) @@ kernel
            /\ heap' = [heap EXCEPT ![cache["charges"]][index] =
                            Den * system.pseudo_numbers[index] - pseudo_population]
    /\ index' = index + 1
    /\ UNCHANGED <<policy, threshold, maxiter, pc, cache, history_propars,
                   history_charges, counter, change, old_propars,
                   done_just_once, calls>>
    /\ UNCHANGED notpart

update_propars_atom_hi ==
    /\ pc = "update_atom"
    /\ policy = "hi"
    /\ index <= natom(system)
    /\ \E pseudo_population \in kernel_results(index, 0..MaxPop) :
         /\ kernel' = (kernel_key(index) :> pseudo_population) @@ kernel
         /\ heap' = [heap EXCEPT ![cache["charges"]][index] =
                         Den * system.pseudo_numbers[index] - pseudo_population]
    /\ index' = index + 1
    /\ UNCHANGED <<policy, threshold, maxiter, pc, cache, at_weights,
                   history_propars, history_charges, counter, change,
                   old_propars, done_just_once, calls>>
    /\ UNCHANGED notpart

\* IterativeStockholderWPart._update_propars_atom
update_propars_atom_is ==
    /\ pc = "update_atom"
    /\ policy = "is"
    /\ index <= natom(system)
    /\ \E radial_results \in kernel_results(index, radial_results_of(index)) :
         LET radial_weights == [s \in 1..rgrid_size[index] |-> rgrid_weight(s)]
             spherical_average ==
                 [s \in 1..rgrid_size[index] |->
                     np_clip(radial_results[s] \div radial_weights[s], TinyFloor)]
             pid == cache["propars"]
             propars == assign_slice(heap[pid], ranges[index], ranges[index + 1],
                                     spherical_average)
             pseudo_population == SumSeq(radial_results)
             fresh == ~in_cache("charges")
             cid == IF fresh THEN Len(heap) + 1 ELSE cache["charges"]
             heap1 == IF fresh THEN Append(heap, zeros(natom(system))) ELSE heap
         IN /\ kernel' = (kernel_key(index) :> radial_results) @@ kernel
            /\ heap' = [heap1 EXCEPT ![pid] = propars,
                                     ![cid][index] =
                            Den * system.pseudo_numbers[index] - pseudo_population]
            /\ cache' = dump(cache, "charges", cid)
    /\ index' = index + 1
    /\ UNCHANGED <<policy, threshold, maxiter, pc, at_weights, history_propars,
                   history_charges, counter, change, old_propars,
                   done_just_once, calls>>
    /\ UNCHANGED notpart

append_history_charges_wrong_key ==
    /\ pc = "update_atom"
    /\ index > natom(system)
    /\ history_charges' = Append(history_charges, np_copy(cache["propars"]))
    /\ pc' = "compute_change"
    /\ UNCHANGED <<policy, threshold, maxiter, heap, cache, at_weights,
                   history_propars, counter, change, old_propars, index,
                   done_just_once, calls, kernel>>
    /\ UNCHANGED notpart

\* line 64, after the loop over the atoms
append_history_charges ==
    /\ pc = "update_atom"
    /\ index > natom(system)
    /\ history_charges' = Append(history_charges, np_copy(cache["charges"]))
    /\ pc' = "compute_change"
    /\ UNCHANGED <<policy, threshold, maxiter, heap, cache, at_weights,
                   history_propars, counter, change, old_propars, index,
                   done_just_once, calls, kernel>>
    /\ UNCHANGED notpart

\* line 103: the change, or the error of a pro-atom that cannot be built
do_compute_change ==
    /\ pc = "compute_change"
    /\ LET r == compute_change(load("propars"), old_propars)
       IN IF r.tag = "ok"
          THEN /\ change' = r.value
               /\ pc' = "test"
          ELSE /\ pc' = "error"
               /\ UNCHANGED change
    /\ UNCHANGED <<policy, threshold, maxiter, heap, cache, at_weights,
                   history_propars, history_charges, counter, old_propars,
                   index, done_just_once, calls, kernel>>
    /\ UNCHANGED notpart

\* lines 106-107
loop_exit_le == below_threshold_or_equal(change, threshold) \/ counter >= maxiter

loop_exit_past_cap == below_threshold(change, threshold) \/ counter > maxiter

loop_exit == below_threshold(change, threshold) \/ counter >= maxiter

test_convergence ==
    /\ pc = "test"
    /\ pc' = IF loop_exit THEN "finalize" ELSE "loop"
    /\ UNCHANGED <<policy, threshold, maxiter, heap, cache, at_weights,
                   history_propars, history_charges, counter, change,
                   old_propars, index, done_just_once, calls, kernel>>
    /\ UNCHANGED notpart

populations_sign_slip(numbers, charges) ==
    [i \in 1..Len(charges) |-> Den * numbers[i] + charges[i]]

\* lines 73-74: numbers - charges
populations_of(numbers, charges) ==
    [i \in 1..Len(charges) |-> Den * numbers[i] - charges[i]]

\* line 112: _finalize_propars

finalize_propars ==
    /\ pc = "finalize"
    /\ LET charges == load("charges")
           c1 == dump(cache, "history_propars", np_array(history_propars))
           c2 == dump(c1, "history_charges", np_array(history_charges))
           c3 == dump(c2, "populations", populations_of(system.numbers, charges))
       IN cache' = dump(c3, "pseudo_populations",
                        populations_of(system.pseudo_numbers, charges))
    /\ pc' = "dump_niter"
    /\ UNCHANGED <<policy, threshold, maxiter, heap, at_weights,
                   history_propars, history_charges, counter, change,
                   old_propars, index, done_just_once, calls, kernel>>
    /\ UNCHANGED notpart

\* line 113
dump_niter ==
    /\ pc = "dump_niter"
    /\ cache' = dump(cache, "niter", counter)
    /\ pc' = "dump_change"
    /\ UNCHANGED <<policy, threshold, maxiter, heap, at_weights,
                   history_propars, history_charges, counter, change,
                   old_propars, index, done_just_once, calls, kernel>>
    /\ UNCHANGED notpart

\* line 114
dump_change ==
    /\ pc = "dump_change"
    /\ cache' = dump(cache, "change", change)
    /\ pc' = "return"
    /\ UNCHANGED <<policy, threshold, maxiter, heap, at_weights,
                   history_propars, history_charges, counter, change,
                   old_propars, index, done_just_once, calls, kernel>>
    /\ UNCHANGED notpart

\* the @just_once wrapper marks the method done when it returns
just_once_return ==
    /\ pc = "return"
    /\ done_just_once' = TRUE
    /\ pc' = "done"
    /\ UNCHANGED <<policy, threshold, maxiter, heap, cache, at_weights,
                   history_propars, history_charges, counter, change,
                   old_propars, index, calls, kernel>>
    /\ UNCHANGED notpart

-----------------------------------------------------------------------------
(* AtomicGridSpec (horton/grid/atgrid.py) *)

\* a list definition and a grid file hold at most MaxRecords records
MaxRecords == 2
\* number of radial shells of the largest radial grid
MaxShells == 2
\* get is asked for the pseudo numbers 0..MaxPseudoNumber
MaxPseudoNumber == 4

\* the tuple form serves the elements 1..MaxElement (xrange(1, 119))
MaxElement == 118
\* horton.units.angstrom, rounded to the fixed-point grid of the radii
angstrom == 2

\* RadialGrid(rtransform): id stands for the identity of the Python object
RadialGrid(rtransform, id) == [id |-> id, rtransform |-> rtransform]

\* rgrid.size
rgrid_size_of(rgrid) == rgrid.rtransform.npoint

no_rgrid == RadialGrid([kind |-> "none", rmin |-> 0, rmax |-> 0, npoint |-> 0], 0)

\* the class names written by RTransform.to_string and read by from_string
rtransform_classes ==
    ("linear" :> "LinearRTransform") @@ ("exp" :> "ExpRTransform")
        @@ ("power" :> "PowerRTransform")

\* rtransform.to_string(): 'ClassName rmin rmax npoint'
rtransform_to_string(rtf) ==
    <<rtransform_classes[rtf.kind], rtf.rmin, rtf.rmax, rtf.npoint>>

\* RTransform.from_string(s)
rtransform_from_string(s) ==
    LET kinds == {k \in DOMAIN rtransform_classes : rtransform_classes[k] = s[1]}
    IN IF kinds = {} THEN [kind |-> "none", rmin |-> 0, rmax |-> 0, npoint |-> 0]
       ELSE [kind |-> CHOOSE k \in kinds : TRUE,
             rmin |-> s[2], rmax |-> s[3], npoint |-> s[4]]

\* list(nlls) * size
RECURSIVE list_times(_, _)
list_times(l, n) == IF n <= 0 THEN <<>> ELSE l \o list_times(l, n - 1)

\* an nlls argument: iter tells whether it has __iter__ (a list or an array);
\* a scalar is kept as the only item
scalar_nlls(v) == [iter |-> FALSE, items |-> <<v>>]

array_nlls(s) == [iter |-> TRUE, items |-> s]

normalize_nlls_no_check(nlls, size) ==
    IF nlls.iter /\ Len(nlls.items) # 1
    THEN [tag |-> "ok", value |-> nlls.items]
    ELSE [tag |-> "ok", value |-> list_times(nlls.items, size)]

\* _normalize_nlls(nlls, size)
normalize_nlls(nlls, size) ==
    IF nlls.iter
    THEN IF Len(nlls.items) = 1
         THEN [tag |-> "ok", value |-> list_times(nlls.items, size)]
         ELSE IF Len(nlls.items) # size
              THEN [tag |-> "ValueError", value |-> <<>>]
              ELSE [tag |-> "ok", value |-> nlls.items]
    ELSE [tag |-> "ok", value |-> list_times(<<nlls.items[1]>>, size)]

\* the outcome of a constructor step: the exception raised ("ok": none) and
\* the members attribute as it stands
no_members == [has |-> FALSE, table |-> <<>>]

outcome(tag, has, table) == [tag |-> tag, members |-> [has |-> has, table |-> table]]

\* lines 342-345: the records are normalised and appended to the list of
\* their element, in the order given, up to the first one that is refused
collect_members(members) ==
    LET norm(k) == normalize_nlls(members[k].nlls, rgrid_size_of(members[k].rgrid))
        bad == {k \in 1..Len(members) : norm(k).tag # "ok"}
        n == IF bad = {} THEN Len(members)
             ELSE (CHOOSE k \in bad : \A o \in bad : k <= o) - 1
        at(number) == {k \in 1..n : members[k].number = number}
        nth(ks, j) == CHOOSE k \in ks : Cardinality({o \in ks : o <= k}) = j
        rec(k) == [pseudo_number |-> members[k].pseudo_number,
                   rgrid |-> members[k].rgrid, nlls |-> norm(k).value]
        table == [number \in {members[k].number : k \in 1..n} |->
                     [j \in 1..Cardinality(at(number)) |-> rec(nth(at(number), j))]]
    IN outcome(IF bad = {} THEN "ok" ELSE "ValueError", TRUE, table)

\* the comparison of two tuples (pseudo_number, rgrid, nlls) by list.sort:
\* the pseudo numbers decide; on a tie two different RadialGrid objects are
\* ordered by their addresses (any order), and the same object leads to the
\* comparison of the nlls arrays
may_precede(a, b) ==
    \/ a.pseudo_number < b.pseudo_number
    \/ /\ a.pseudo_number = b.pseudo_number
       /\ \/ a.rgrid.id # b.rgrid.id
          \/ Len(a.nlls) = 0
          \/ a.nlls[1] <= b.nlls[1]

\* the truth value of an array comparison is ambiguous for more than one item
sort_raises(l) ==
    \E i, j \in 1..Len(l) :
        /\ i < j
        /\ l[i].pseudo_number = l[j].pseudo_number
        /\ l[i].rgrid.id = l[j].rgrid.id
        /\ Len(l[i].nlls) > 1

unsorted_orders(l) == {l}

\* l.sort(): the orders list.sort can leave the list in
sorted_orders(l) ==
    {s \in {[i \in 1..Len(l) |-> l[f[i]]] : f \in Permutations(1..Len(l))} :
        \A i \in 1..(Len(l) - 1) : may_precede(s[i], s[i + 1])}

\* lines 346-347: every list is sorted; only the lists with ties have more
\* than one possible order
sort_members(table) ==
    LET tied == {n \in DOMAIN table : Cardinality(sorted_orders(table[n])) > 1}
        the_order(n) == CHOOSE s \in sorted_orders(table[n]) : TRUE
        choices == {c \in [tied -> UNION {sorted_orders(table[n]) : n \in tied}] :
                       \A n \in tied : c[n] \in sorted_orders(table[n])}
    IN IF \E n \in DOMAIN table : sort_raises(table[n])
       THEN {outcome("ValueError", TRUE, table)}
       ELSE {outcome("ok", TRUE,
                     [n \in DOMAIN table |-> IF n \in tied THEN c[n] ELSE the_order(n)]) :
                c \in choices}

\* _init_members_from_list: the possible outcomes
init_members_from_list(members) ==
    LET c == collect_members(members)
    IN IF c.tag # "ok" THEN {c} ELSE sort_members(c.members.table)

\* _init_members_from_tuple
init_members_from_tuple(rgrid, nlls) ==
    LET n == normalize_nlls(nlls, rgrid_size_of(rgrid))
    IN IF n.tag # "ok" THEN {outcome(n.tag, FALSE, <<>>)}
       ELSE {outcome("ok", TRUE,
                     [number \in 1..MaxElement |->
                         <<[pseudo_number |-> number, rgrid |-> rgrid,
                            nlls |-> n.value]>>])}

-----------------------------------------------------------------------------
(* Text definitions.  A string is the sequence of its words and separators;
   a path is absolute when it starts with "/". *)

data_dir == <<"/", "share/horton/">>

\* context.get_fn(filename): os.path.join(data_dir, filename)
context_get_fn(filename) ==
    IF filename # <<>> /\ filename[1] = "/" THEN filename ELSE data_dir \o filename

\* 'grids/%s.txt' % name
grids_txt(name) == <<"grids/">> \o name \o <<".txt">>

simple_names ==
    ("coarse" :> "tv-13.7-3") @@ ("medium" :> "tv-13.7-4") @@ ("fine" :> "tv-13.7-5")
        @@ ("veryfine" :> "tv-13.7-6") @@ ("ultrafine" :> "tv-13.7-7")
        @@ ("insane" :> "tv-13.7-8")

simple_rtfs == {"linear", "exp", "power"}

\* the records of a grid file: element, pseudo number, rtransform string, nlls
file_record(number, pseudo_number, rtf, nlls) ==
    [number |-> number, pseudo_number |-> pseudo_number, rtf |-> rtf, nlls |-> nlls]

grid_file(nll) ==
    <<file_record(3, 3, <<"PowerRTransform", 1, 20, 2>>, <<nll, 2 * nll>>),
      file_record(1, 1, <<"ExpRTransform", 2, 30, 1>>, <<nll>>),
      file_record(3, 1, <<"ExpRTransform", 2, 30, 2>>, <<nll, nll>>)>>

\* the files that exist: the built-in grids, a local file given by its
\* absolute path and one in the working directory
files ==
    (context_get_fn(grids_txt(<<"tv-13.7-3">>)) :> grid_file(1))
    @@ (context_get_fn(grids_txt(<<"tv-13.7-4">>)) :> grid_file(2))
    @@ (context_get_fn(grids_txt(<<"tv-13.7-5">>)) :> grid_file(3))
    @@ (context_get_fn(grids_txt(<<"tv-13.7-6">>)) :> grid_file(4))
    @@ (context_get_fn(grids_txt(<<"tv-13.7-7">>)) :> grid_file(5))
    @@ (context_get_fn(grids_txt(<<"tv-13.7-8">>)) :> grid_file(6))
    @@ (<<"/", "home/grid.txt">> :> grid_file(7))
    @@ (<<"local.txt">> :> grid_file(8))

os_path_isfile(path) == path \in DOMAIN files

\* float() and int() of a word: the literals they accept
literals == ("1" :> 1) @@ ("2" :> 2) @@ ("6" :> 6)

\* definition.count(':')
RECURSIVE count_colons(_)
count_colons(s) ==
    IF s = <<>> THEN 0
    ELSE (IF Head(s) = ":" THEN 1 ELSE 0) + count_colons(Tail(s))

\* name.split(':'): the words between the separators ("" for an empty field)
RECURSIVE split_colons(_, _)
split_colons(s, word) ==
    IF s = <<>> THEN <<word>>
    ELSE IF Head(s) = ":" THEN <<word>> \o split_colons(Tail(s), "")
    ELSE split_colons(Tail(s), Head(s))

\* _load(filename): the records of the file, each with a new RadialGrid
load_file(filename) ==
    LET fn == context_get_fn(filename)
    IN IF ~os_path_isfile(fn) THEN {outcome("IOError", FALSE, <<>>)}
       ELSE init_members_from_list(
                [k \in 1..Len(files[fn]) |->
                    [number |-> files[fn][k].number,
                     pseudo_number |-> files[fn][k].pseudo_number,
                     rgrid |-> RadialGrid(rtransform_from_string(files[fn][k].rtf), 100 + k),
                     nlls |-> array_nlls(files[fn][k].nlls)]])

\* lines 377-387: the inline form
init_members_from_words(words) ==
    IF words[1] \notin simple_rtfs THEN {outcome("ValueError", FALSE, <<>>)}
    ELSE IF \E k \in 2..5 : words[k] \notin DOMAIN literals
    THEN {outcome("ValueError", FALSE, <<>>)}
    ELSE LET rmin == literals[words[2]] * angstrom
             rmax == literals[words[3]] * angstrom
             nrad == literals[words[4]]
             rgrid == RadialGrid([kind |-> words[1], rmin |-> rmin, rmax |-> rmax,
                                  npoint |-> nrad], 100)
             nll == literals[words[5]]
         IN init_members_from_tuple(rgrid, scalar_nlls(nll))

\* _init_members_from_string
init_members_from_string(definition) ==
    IF os_path_isfile(definition) THEN load_file(definition)
    ELSE IF os_path_isfile(context_get_fn(grids_txt(definition)))
    THEN load_file(context_get_fn(grids_txt(definition)))
    ELSE IF Len(definition) = 1 /\ definition[1] \in DOMAIN simple_names
    THEN load_file(context_get_fn(grids_txt(<<simple_names[definition[1]]>>)))
    ELSE IF count_colons(definition) = 4
    THEN init_members_from_words(split_colons(definition, ""))
    ELSE {outcome("ok", FALSE, <<>>)}

\* AtomicGridSpec.__init__: the name and the possible outcomes
agspec_name(definition) ==
    IF definition.form = "string" THEN definition.text
    ELSE IF definition.form \in {"tuple", "list"} THEN <<"custom">>
    ELSE <<>>

agspec_init(definition) ==
    IF definition.form = "string" THEN init_members_from_string(definition.text)
    ELSE IF definition.form = "tuple"
    THEN init_members_from_tuple(definition.rgrid, definition.nlls)
    ELSE IF definition.form = "list" THEN init_members_from_list(definition.list)
    ELSE {outcome("ValueError", FALSE, <<>>)}

-----------------------------------------------------------------------------
(* AtomicGridSpec: get, get_size, to_hdf5, from_hdf5 *)

get_result(tag, rgrid, nlls) == [tag |-> tag, rgrid |-> rgrid, nlls |-> nlls]

RECURSIVE first_above(_, _, _)
first_above(l, pseudo_number, k) ==
    IF k > Len(l) THEN get_result("ValueError", no_rgrid, <<>>)
    ELSE IF l[k].pseudo_number > pseudo_number
    THEN get_result("ok", l[k].rgrid, l[k].nlls)
    ELSE first_above(l, pseudo_number, k + 1)

\* the loop of get over self.members.get(number, [])
RECURSIVE first_match(_, _, _)
first_match(l, pseudo_number, k) ==
    IF k > Len(l) THEN get_result("ValueError", no_rgrid, <<>>)
    ELSE IF l[k].pseudo_number >= pseudo_number
    THEN get_result("ok", l[k].rgrid, l[k].nlls)
    ELSE first_match(l, pseudo_number, k + 1)

\* AtomicGridSpec.get(number, pseudo_number)
agspec_get(members, number, pseudo_number) ==
    IF ~members.has THEN get_result("AttributeError", no_rgrid, <<>>)
    ELSE first_match(IF number \in DOMAIN members.table
                     THEN members.table[number] ELSE <<>>,
                     pseudo_number, 1)

\* AtomicGridSpec.get_size(number, pseudo_number): nlls.sum(), or the error of get
agspec_get_size(members, number, pseudo_number) ==
    LET r == agspec_get(members, number, pseudo_number)
    IN [tag |-> r.tag, size |-> SumSeq(r.nlls)]

\* the dataset name '%03i_%03i' % (number, pseudo_number): the two fields
dataset_name(number, pseudo_number) == <<number, pseudo_number>>

dataset_without_threshold(number, rec) ==
    [data |-> rec.nlls,
     attrs |-> [number |-> number, pseudo_number |-> number,
                rtransform |-> rtransform_to_string(rec.rgrid.rtransform)]]

\* lines 308-311: the dataset of one record
dataset(number, rec) ==
    [data |-> rec.nlls,
     attrs |-> [number |-> number, pseudo_number |-> rec.pseudo_number,
                rtransform |-> rtransform_to_string(rec.rgrid.rtransform)]]

\* a selection of to_hdf5: None, or the set of the (number, pseudo_number)
no_selection == [none |-> TRUE, pairs |-> {}]

\* AtomicGridSpec.to_hdf5(grp, selection): the records selected are written
\* element by element in their order; create_dataset fails when the name is
\* taken, and what was written before stays.  A name starts with the number,
\* so that two records of different elements never share a name.
to_hdf5(grp, table, selection) ==
    LET chosen(n, k) == selection.none
                        \/ <<n, table[n][k].pseudo_number>> \in selection.pairs
        name(n, k) == dataset_name(n, table[n][k].pseudo_number)
        clash(n, k) == /\ chosen(n, k)
                       /\ \/ name(n, k) \in DOMAIN grp
                          \/ \E j \in 1..(k - 1) : chosen(n, j) /\ name(n, j) = name(n, k)
        clashes == {e \in UNION {{<<n, k>> : k \in 1..Len(table[n])} : n \in DOMAIN table} :
                       clash(e[1], e[2])}
        before(e, f) == e[1] < f[1] \/ (e[1] = f[1] /\ e[2] < f[2])
        first == CHOOSE e \in clashes : \A o \in clashes : e = o \/ before(e, o)
        written(n, k) == chosen(n, k) /\ (clashes = {} \/ before(<<n, k>>, first))
        names == UNION {{name(n, k) : k \in {j \in 1..Len(table[n]) : written(n, j)}} :
                           n \in DOMAIN table}
        record(nm) == table[nm[1]][CHOOSE k \in 1..Len(table[nm[1]]) :
                                      written(nm[1], k) /\ name(nm[1], k) = nm]
    IN [tag |-> IF clashes = {} THEN "ok" ELSE "ValueError",
        datasets |-> [nm \in names \cup DOMAIN grp |->
                         IF nm \in DOMAIN grp THEN grp[nm]
                         ELSE dataset(nm[1], record(nm))]]

\* grp.itervalues(): the datasets of a group in the order of their names
itervalues(grp) ==
    LET names == DOMAIN grp
        le(n, o) == n[1] < o[1] \/ (n[1] = o[1] /\ n[2] <= o[2])
        ranked == {<<Cardinality({o \in names : le(o, n)}), n>> : n \in names}
    IN [k \in 1..Cardinality(names) |-> grp[(CHOOSE r \in ranked : r[1] = k)[2]]]

\* lines 293-299: the records read from the group, each with a new RadialGrid
from_hdf5_records(grp) ==
    LET dss == itervalues(grp)
    IN [k \in 1..Len(dss) |->
           [number |-> dss[k].attrs.number,
            pseudo_number |-> dss[k].attrs.pseudo_number,
            rgrid |-> RadialGrid(rtransform_from_string(dss[k].attrs.rtransform), 200 + k),
            nlls |-> array_nlls(dss[k].data)]]

\* AtomicGridSpec.from_hdf5(grp, lf): AtomicGridSpec(records)
from_hdf5(grp) ==
    agspec_init([form |-> "list", text |-> <<>>, rgrid |-> no_rgrid,
                 nlls |-> scalar_nlls(0), list |-> from_hdf5_records(grp)])

-----------------------------------------------------------------------------
(* The definitions the constructor is given *)

rgrid_a == RadialGrid([kind |-> "exp", rmin |-> 1, rmax |-> 20, npoint |-> MaxShells], 1)

rgrid_b == RadialGrid([kind |-> "power", rmin |-> 2, rmax |-> 30, npoint |-> 1], 2)

\* the same radial transform as rgrid_a in another object
rgrid_c == RadialGrid([kind |-> "exp", rmin |-> 1, rmax |-> 20, npoint |-> MaxShells], 3)

member(number, pseudo_number, rgrid, nlls) ==
    [number |-> number, pseudo_number |-> pseudo_number, rgrid |-> rgrid, nlls |-> nlls]

\* the records list definitions are made of
member_pool ==
    {member(1, 1, rgrid_b, scalar_nlls(6)),
     member(3, 3, rgrid_a, scalar_nlls(14)),
     member(3, 1, rgrid_b, array_nlls(<<6>>)),
     member(3, 1, rgrid_a, array_nlls(list_times(<<6>>, MaxShells))),
     member(3, 1, rgrid_c, array_nlls(list_times(<<6>>, MaxShells))),
     member(3, 2, rgrid_a, array_nlls(list_times(<<6>>, MaxShells + 1)))}

RECURSIVE lists_upto(_)
lists_upto(n) ==
    IF n = 0 THEN {<<>>}
    ELSE LET shorter == lists_upto(n - 1)
         IN shorter \cup {Append(l, m) : l \in {s \in shorter : Len(s) = n - 1},
                                         m \in member_pool}

\* the angular counts of the shells of the tests: 6, 14, 26, 6, 14, ...
lebedev_counts(n) == [s \in 1..n |-> <<6, 14, 26>>[((s - 1) % 3) + 1]]

\* a scalar, and arrays of every length up to one more than the shells
nlls_arguments ==
    {scalar_nlls(6)} \cup {array_nlls(lebedev_counts(n)) : n \in 0..(MaxShells + 1)}

text_definitions ==
    {<<w>> : w \in DOMAIN simple_names}
    \cup {<<"tv-13.7-4">>, <<"/", "home/grid.txt">>, <<"local.txt">>,
          <<"power", ":", "1", ":", "2", ":", "2", ":", "6">>,
          <<"cubic", ":", "1", ":", "2", ":", "2", ":", "6">>,
          <<"exp", ":", "one", ":", "2", ":", "2", ":", "6">>,
          <<"linear", ":", "1", ":", "2">>,
          <<"nonsense">>, <<>>}

definition_of(form, text, rgrid, nlls, list) ==
    [form |-> form, text |-> text, rgrid |-> rgrid, nlls |-> nlls, list |-> list]

definitions ==
    {definition_of("string", t, no_rgrid, scalar_nlls(0), <<>>) : t \in text_definitions}
    \cup {definition_of("tuple", <<>>, g, n, <<>>) :
             g \in {rgrid_a, rgrid_b}, n \in nlls_arguments}
    \cup {definition_of("list", <<>>, no_rgrid, scalar_nlls(0), l) :
             l \in lists_upto(MaxRecords)}
    \cup {definition_of("other", <<>>, no_rgrid, scalar_nlls(0), <<>>)}

-----------------------------------------------------------------------------
(* The life of an AtomicGridSpec *)

no_group == [tag |-> "none", datasets |-> <<>>]

no_reload == [tag |-> "none", members |-> no_members]

InitAgspecIdle ==
    /\ ag_definition = definition_of("other", <<>>, no_rgrid, scalar_nlls(0), <<>>)
    /\ ag_pc = "none"
    /\ ag_error = "none"
    /\ ag_name = <<>>
    /\ ag_members = no_members
    /\ ag_op = "none"
    /\ ag_args = <<0, 0>>
    /\ ag_result = get_result("none", no_rgrid, <<>>)
    /\ ag_grp = no_group
    /\ ag_reloaded = no_reload

\* AtomicGridSpec(definition)
AtomicGridSpec ==
    /\ ag_pc = "none"
    /\ \E o \in agspec_init(ag_definition) :
         /\ ag_pc' = IF o.tag = "ok" THEN "ready" ELSE "raised"
         /\ ag_error' = o.tag
         /\ ag_members' = o.members
    /\ ag_name' = agspec_name(ag_definition)
    /\ UNCHANGED <<ag_definition, ag_op, ag_args, ag_result, ag_grp, ag_reloaded>>
    /\ UNCHANGED notag

\* agspec.get(number, pseudo_number)
call_get ==
    /\ ag_pc = "ready"
    /\ \E number \in {1, 2, 3}, pseudo_number \in 0..MaxPseudoNumber :
         /\ ag_op' = "get"
         /\ ag_args' = <<number, pseudo_number>>
         /\ ag_result' = agspec_get(ag_members, number, pseudo_number)
    /\ UNCHANGED <<ag_definition, ag_pc, ag_error, ag_name, ag_members, ag_grp,
                   ag_reloaded>>
    /\ UNCHANGED notag

\* agspec.to_hdf5(grp) on an empty group
call_to_hdf5 ==
    /\ ag_pc = "ready"
    /\ ag_op' = "to_hdf5"
    /\ ag_grp' = IF ag_members.has
                 THEN to_hdf5(<<>>, ag_members.table, no_selection)
                 ELSE [tag |-> "AttributeError", datasets |-> <<>>]
    /\ UNCHANGED <<ag_definition, ag_pc, ag_error, ag_name, ag_members, ag_args,
                   ag_result, ag_reloaded>>
    /\ UNCHANGED notag

\* AtomicGridSpec.from_hdf5(grp, None) on the group written
call_from_hdf5 ==
    /\ ag_grp.tag = "ok"
    /\ ag_op' = "from_hdf5"
    /\ \E o \in from_hdf5(ag_grp.datasets) : ag_reloaded' = o
    /\ UNCHANGED <<ag_definition, ag_pc, ag_error, ag_name, ag_members, ag_args,
                   ag_result, ag_grp>>
    /\ UNCHANGED notag

-----------------------------------------------------------------------------
(* BeckeMolGrid (horton/grid/molgrid.py) *)

\* update_centers is called at most MaxUpdates times
MaxUpdates == 2
\* the atoms sit at the positions 0..MaxCoordinate
MaxCoordinate == 1

\* the AtomicGridSpec of the molecular grids: H, and Li with and without an
\* effective core, each with its own number of points
molgrid_agspec ==
    CHOOSE o \in init_members_from_list(
        <<member(1, 1, rgrid_b, array_nlls(<<6>>)),
          member(3, 3, rgrid_a, array_nlls(lebedev_counts(MaxShells))),
          member(3, 1, rgrid_a, scalar_nlls(6))>>) : TRUE

\* a System: coordinates, numbers and pseudo_numbers of n_atom atoms
System(coordinates, numbers, pseudo_numbers) ==
    [coordinates |-> coordinates, numbers |-> numbers,
     pseudo_numbers |-> pseudo_numbers]

\* the shell of the p-th point of an atomic grid with the counts nlls
\* (_init_low: offset += nll)
RECURSIVE shell_of(_, _, _)
shell_of(nlls, p, i) ==
    IF i >= Len(nlls) \/ p <= nlls[i] THEN i
    ELSE shell_of(nlls, p - nlls[i], i + 1)

\* what _init_low writes: the points of the shells around the center, and
\* the local weights of the shells
atgrid_points(atom, center, nlls) ==
    [p \in 1..SumSeq(nlls) |->
        [atom |-> atom, shell |-> shell_of(nlls, p, 1), center |-> center]]

atgrid_weights(atom, nlls) ==
    [p \in 1..SumSeq(nlls) |->
        [atom |-> atom, shell |-> shell_of(nlls, p, 1), becke |-> <<>>]]

\* np.zeros(size, float)
zero_weight == [atom |-> 0, shell |-> 0, becke |-> <<>>]

zero_point == [atom |-> 0, shell |-> 0, center |-> 0]

\* becke_helper_atom(points, weights, cov_radii, centers, i, k): every weight
\* of the slice is multiplied by the partition factor of atom i at its point,
\* which depends on all the centers
becke_helper_atom(weights, centers) ==
    [p \in 1..Len(weights) |-> [weights[p] EXCEPT !.becke = centers]]

\* an AtomicGrid kept as a subgrid: its points are the slice of the
\* molecular points starting at offset, its center is row `atom` of the
\* molecular centers, its weights are an array of its own
AtomicGrid(atom, number, pseudo_number, nlls, offset) ==
    [atom |-> atom, number |-> number, pseudo_number |-> pseudo_number,
     nlls |-> nlls, offset |-> offset, weights |-> atgrid_weights(atom, nlls)]

atgrid_nsphere(atgrid) == Len(atgrid.nlls)

\* atgrid.size: the length of its weights
atgrid_size(atgrid) == Len(atgrid.weights)

no_subgrids == [none |-> TRUE, list |-> <<>>]

molgrid(tag, points, weights, subgrids) ==
    [tag |-> tag, points |-> points, weights |-> weights, subgrids |-> subgrids]

\* lines 127-141: the loop over the atoms
RECURSIVE molgrid_atoms(_, _, _, _, _, _, _)
molgrid_atoms(molecule, mode, i, offset, points, weights, atgrids) ==
    IF i > Len(molecule.numbers)
    THEN molgrid("ok", points, weights,
                 IF mode # "discard" THEN [none |-> FALSE, list |-> atgrids]
                 ELSE no_subgrids)
    ELSE LET got == agspec_get(molgrid_agspec.members, molecule.numbers[i],
                               molecule.pseudo_numbers[i])
             atsize == agspec_get_size(molgrid_agspec.members, molecule.numbers[i],
                                       molecule.pseudo_numbers[i]).size
             atgrid == AtomicGrid(i, molecule.numbers[i], molecule.pseudo_numbers[i],
                                  got.nlls, offset)
             points1 == assign_slice(points, offset, offset + atsize,
                            atgrid_points(i, molecule.coordinates[i], got.nlls))
             weights1 == IF mode # "only"
                         THEN assign_slice(weights, offset, offset + atsize,
                                  becke_helper_atom(atgrid.weights, molecule.coordinates))
                         ELSE weights
         IN molgrid_atoms(molecule, mode, i + 1, offset + atsize, points1, weights1,
                          IF mode # "discard" THEN Append(atgrids, atgrid) ELSE atgrids)

\* BeckeMolGrid.__init__(molecule, agspec, k, random_rotate, mode)
molgrid_init(molecule, mode) ==
    LET n_atom == Len(molecule.numbers)
        sizes == [i \in 1..n_atom |->
                     agspec_get_size(molgrid_agspec.members, molecule.numbers[i],
                                     molecule.pseudo_numbers[i])]
        size == SumSeq([i \in 1..n_atom |-> sizes[i].size])
    IN IF mode \notin {"discard", "keep", "only"}
       THEN molgrid("ValueError", <<>>, <<>>, no_subgrids)
       ELSE IF \E i \in 1..n_atom : sizes[i].tag # "ok"
       THEN molgrid("ValueError", <<>>, <<>>, no_subgrids)
       ELSE molgrid_atoms(molecule, mode, 1, 0, [p \in 1..size |-> zero_point],
                          [p \in 1..size |-> zero_weight], <<>>)

\* lines 240-253 of update_centers: the loop over the atoms
RECURSIVE update_atoms(_, _, _, _, _, _)
update_atoms(centers, i, offset, points, weights, subgrids) ==
    IF i > Len(centers) THEN molgrid("ok", points, weights, subgrids)
    ELSE LET atgrid == subgrids[i]
             atsize == atgrid_size(atgrid)
             updated == [atgrid EXCEPT !.weights = atgrid_weights(atgrid.atom, atgrid.nlls)]
             points1 == assign_slice(points, atgrid.offset,
                            atgrid.offset + SumSeq(atgrid.nlls),
                            atgrid_points(atgrid.atom, centers[atgrid.atom], atgrid.nlls))
             weights1 == assign_slice(weights, offset, offset + atsize,
                             becke_helper_atom(updated.weights, centers))
         IN update_atoms(centers, i + 1, offset + atgrid_size(atgrid), points1,
                         weights1, [subgrids EXCEPT ![i] = updated])

\* the systems a grid is built for and moved to
systems ==
    LET kinds == {<<<<1>>, <<1>>>>, <<<<3>>, <<3>>>>, <<<<3>>, <<1>>>>, <<<<2>>, <<2>>>>,
                  <<<<1, 3>>, <<1, 3>>>>, <<<<1, 3>>, <<1, 1>>>>, <<<<3, 1>>, <<3, 1>>>>}
    IN UNION {{System(c, kind[1], kind[2]) :
                  c \in [1..Len(kind[1]) -> 0..MaxCoordinate]} : kind \in kinds}

InitMolgridIdle ==
    /\ mg_system = System(<<>>, <<>>, <<>>)
    /\ mg_pc = "none"
    /\ mg_mode = "discard"
    /\ mg_centers = <<>>
    /\ mg_numbers = <<>>
    /\ mg_pseudo_numbers = <<>>
    /\ mg_points = <<>>
    /\ mg_weights = <<>>
    /\ mg_subgrids = no_subgrids
    /\ mg_op = "none"
    /\ mg_result = "none"
    /\ mg_updates = 0

\* BeckeMolGrid(molecule, agspec, mode=mode)
BeckeMolGrid ==
    /\ mg_pc = "none"
    /\ LET g == molgrid_init(mg_system, mg_mode)
       IN /\ mg_pc' = IF g.tag = "ok" THEN "ready" ELSE "raised"
          /\ mg_result' = g.tag
          /\ mg_points' = g.points
          /\ mg_weights' = g.weights
          /\ mg_subgrids' = g.subgrids
    /\ mg_centers' = mg_system.coordinates
    /\ mg_numbers' = mg_system.numbers
    /\ mg_pseudo_numbers' = mg_system.pseudo_numbers
    /\ mg_op' = "__init__"
    /\ UNCHANGED <<mg_system, mg_mode, mg_updates>>
    /\ UNCHANGED notmg

integrate_without_subgrids ==
    /\ mg_pc = "ready"
    /\ mg_op' = "integrate"
    /\ mg_result' = IF ~mg_subgrids.none THEN "NotImplementedError" ELSE "ok"
    /\ UNCHANGED <<mg_system, mg_pc, mg_mode, mg_centers, mg_numbers,
                   mg_pseudo_numbers, mg_points, mg_weights, mg_subgrids, mg_updates>>
    /\ UNCHANGED notmg

\* BeckeMolGrid.integrate(*args)
integrate ==
    /\ mg_pc = "ready"
    /\ mg_op' = "integrate"
    /\ mg_result' = IF mg_mode = "only" THEN "NotImplementedError" ELSE "ok"
    /\ UNCHANGED <<mg_system, mg_pc, mg_mode, mg_centers, mg_numbers,
                   mg_pseudo_numbers, mg_points, mg_weights, mg_subgrids, mg_updates>>
    /\ UNCHANGED notmg

update_centers_unchecked ==
    /\ mg_pc = "ready"
    /\ mg_updates < MaxUpdates
    /\ mg_updates' = mg_updates + 1
    /\ mg_op' = "update_centers"
    /\ \E molecule \in systems :
         /\ mg_system' = molecule
         /\ IF mg_subgrids.none
            THEN /\ mg_result' = "RuntimeError"
                 /\ UNCHANGED <<mg_centers, mg_points, mg_weights, mg_subgrids>>
            ELSE IF Len(mg_subgrids.list) # Len(molecule.numbers)
            THEN /\ mg_result' = "ValueError"
                 /\ UNCHANGED <<mg_centers, mg_points, mg_weights, mg_subgrids>>
            ELSE /\ mg_centers' = molecule.coordinates
                 /\ IF mg_numbers # molecule.numbers
                       \/ mg_pseudo_numbers # molecule.pseudo_numbers
                    THEN /\ mg_result' = "ValueError"
                         /\ UNCHANGED <<mg_points, mg_weights, mg_subgrids>>
                    ELSE LET g == update_atoms(molecule.coordinates, 1, 0, mg_points,
                                               mg_weights, mg_subgrids.list)
                         IN /\ mg_result' = "ok"
                            /\ mg_points' = g.points
                            /\ mg_weights' = g.weights
                            /\ mg_subgrids' = [none |-> FALSE, list |-> g.subgrids]
    /\ UNCHANGED <<mg_pc, mg_mode, mg_numbers, mg_pseudo_numbers>>
    /\ UNCHANGED notmg

\* BeckeMolGrid.update_centers(molecule)
update_centers ==
    /\ mg_pc = "ready"
    /\ mg_updates < MaxUpdates
    /\ mg_updates' = mg_updates + 1
    /\ mg_op' = "update_centers"
    /\ \E molecule \in systems :
         /\ mg_system' = molecule
         /\ IF mg_subgrids.none
            THEN /\ mg_result' = "RuntimeError"
                 /\ UNCHANGED <<mg_centers, mg_points, mg_weights, mg_subgrids>>
            ELSE IF Len(mg_subgrids.list) # Len(molecule.numbers)
            THEN /\ mg_result' = "ValueError"
                 /\ UNCHANGED <<mg_centers, mg_points, mg_weights, mg_subgrids>>
            ELSE IF mg_numbers # molecule.numbers
                    \/ mg_pseudo_numbers # molecule.pseudo_numbers
            THEN /\ mg_result' = "ValueError"
                 /\ UNCHANGED <<mg_centers, mg_points, mg_weights, mg_subgrids>>
            ELSE LET g == update_atoms(molecule.coordinates, 1, 0, mg_points,
                                       mg_weights, mg_subgrids.list)
                 IN /\ mg_result' = "ok"
                    /\ mg_centers' = molecule.coordinates
                    /\ mg_points' = g.points
                    /\ mg_weights' = g.weights
                    /\ mg_subgrids' = [none |-> FALSE, list |-> g.subgrids]
    /\ UNCHANGED <<mg_pc, mg_mode, mg_numbers, mg_pseudo_numbers>>
    /\ UNCHANGED notmg

-----------------------------------------------------------------------------
(* The Becke partition factors (becke_helper_atom) *)

\* the switching order of a BeckeMolGrid built without the argument k; the
\* orders 1..DefaultOrder are worked out
DefaultOrder == 3

\* The values of the scheme are fractions whose denominators are cubed by
\* every composition of the switching polynomial, so they are kept exactly: a natural number is the sequence of its digits in base
\* 2^12, lowest first, without a leading zero digit.
big_base == 2 ^ 12

big(n) ==
    IF n = 0 THEN <<>>
    ELSE IF n < big_base THEN <<n>>
    ELSE <<n % big_base, n \div big_base>>

RECURSIVE big_strip(_)
big_strip(a) ==
    IF a # <<>> /\ a[Len(a)] = 0 THEN big_strip(SubSeq(a, 1, Len(a) - 1)) ELSE a

\* the digits of the number with the column values cols, carry c coming in
RECURSIVE big_carry(_, _, _)
big_carry(cols, i, c) ==
    IF i > Len(cols) THEN big(c)
    ELSE <<(cols[i] + c) % big_base>>
            \o big_carry(cols, i + 1, (cols[i] + c) \div big_base)

big_digit(a, i) == IF i <= Len(a) THEN a[i] ELSE 0

big_add(a, b) ==
    big_strip(big_carry([i \in 1..(IF Len(a) >= Len(b) THEN Len(a) ELSE Len(b)) |->
                            big_digit(a, i) + big_digit(b, i)], 1, 0))

\* a - b, for a >= b
big_sub(a, b) ==
    big_strip(big_carry([i \in 1..Len(a) |-> a[i] - big_digit(b, i)], 1, 0))

big_leq(a, b) ==
    \/ Len(a) < Len(b)
    \/ /\ Len(a) = Len(b)
       /\ \/ a = b
          \/ LET top == CHOOSE i \in 1..Len(a) :
                            /\ a[i] # b[i]
                            /\ \A j \in (i + 1)..Len(a) : a[j] = b[j]
             IN a[top] < b[top]

RECURSIVE big_column(_, _, _, _)
big_column(a, b, c, i) ==
    IF i > Len(a) \/ i > c THEN 0
    ELSE (IF c + 1 - i <= Len(b) THEN a[i] * b[c + 1 - i] ELSE 0)
            + big_column(a, b, c, i + 1)

big_mul(a, b) ==
    IF a = <<>> \/ b = <<>> THEN <<>>
    ELSE big_strip(big_carry([c \in 1..(Len(a) + Len(b) - 1) |->
                                 big_column(a, b, c, 1)], 1, 0))

\* the fraction (-1)^neg * num / den
fraction(neg, num, den) == [neg |-> neg /\ num # <<>>, num |-> num, den |-> den]

fraction_mul(x, y) ==
    fraction(x.neg # y.neg, big_mul(x.num, y.num), big_mul(x.den, y.den))

\* x + y for fractions of the same denominator
fraction_add(x, y) ==
    IF x.neg = y.neg THEN fraction(x.neg, big_add(x.num, y.num), x.den)
    ELSE IF big_leq(y.num, x.num) THEN fraction(x.neg, big_sub(x.num, y.num), x.den)
    ELSE fraction(y.neg, big_sub(y.num, x.num), x.den)

\* p(x) = 1.5 x - 0.5 x^3 without the cubic term
switch_linear(x) ==
    fraction(x.neg, big_mul(big(3), big_mul(x.num, big_mul(x.den, x.den))),
             big_mul(big(2), big_mul(x.den, big_mul(x.den, x.den))))

\* p(x) = 1.5 x - 0.5 x^3 = x (3 - x^2) / 2
switch_poly(x) ==
    LET three == big_mul(big(3), big_mul(x.den, x.den))
        square == big_mul(x.num, x.num)
        cube == big_mul(big(2), big_mul(x.den, big_mul(x.den, x.den)))
    IN IF big_leq(square, three)
       THEN fraction(x.neg, big_mul(x.num, big_sub(three, square)), cube)
       ELSE fraction(~x.neg, big_mul(x.num, big_sub(square, three)), cube)

\* k compositions of p
RECURSIVE switch_iterated(_, _)
switch_iterated(x, k) == IF k = 0 THEN x ELSE switch_iterated(switch_poly(x), k - 1)

\* s = (1 - f) / 2
switch_function(f) ==
    fraction_add(fraction(FALSE, f.den, big_mul(big(2), f.den)),
                 fraction(~f.neg, f.num, big_mul(big(2), f.den)))

\* The atoms sit at corners of the rhombus (0,0), (6,0), (3,4), (3,-4),
\* whose sides and diagonals have the lengths 5, 6 and 8, and the point at
\* a place whose distance to every atom is a whole number, so that every
\* value of the scheme is a fraction.
becke_positions == {<<0, 0>>, <<6, 0>>, <<3, 4>>, <<3, 0 - 4>>}

becke_points == {<<3, 0>>, <<0, 0>>, <<3, 4>>, <<3, 0 - 4>>, <<0, 8>>, <<6, 8>>}

\* the sizes of the atoms; a_AB is a quarter of the difference of the sizes
becke_radii == {1, 2, 3}

becke_distance_sq(p, q) ==
    (p[1] - q[1]) * (p[1] - q[1]) + (p[2] - q[2]) * (p[2] - q[2])

becke_whole_distance(p, q) == \E d \in 0..12 : d * d = becke_distance_sq(p, q)

becke_distance(p, q) == CHOOSE d \in 0..12 : d * d = becke_distance_sq(p, q)

\* a_AB, in quarters: zero between atoms of the same size, positive for the
\* smaller atom and negative for the larger one, at most 1/2 in magnitude
becke_a(radius_a, radius_b) == radius_b - radius_a

\* a denominator of every nu_AB: 4 R_AB^2 divides it for R_AB = 5, 6 and 8
becke_denominator == 4 * 25 * 36 * 16

\* nu_AB = mu_AB + a_AB (1 - mu_AB^2) with mu_AB = (r_A - r_B) / R_AB, as a
\* multiple of 1 / becke_denominator
becke_nu(point, radii, centers, i, b) ==
    LET R == becke_distance(centers[i], centers[b])
        m == becke_distance(point, centers[i]) - becke_distance(point, centers[b])
    IN m * (becke_denominator \div R)
          + becke_a(radii[i], radii[b]) * (R * R - m * m)
               * (becke_denominator \div (4 * R * R))

nu_fraction(n) ==
    IF n >= 0 THEN fraction(FALSE, big(n), big(becke_denominator))
    ELSE fraction(TRUE, big(0 - n), big(becke_denominator))

\* the molecules: one atom; two atoms at the distance 6, 5 or 8 with every
\* combination of sizes; three and four atoms with equal sizes, with
\* three different sizes and with one atom smaller than the others
becke_molecules ==
    LET pairs == {<<<<0, 0>>, <<6, 0>>>>, <<<<0, 0>>, <<3, 4>>>>,
                  <<<<3, 4>>, <<3, 0 - 4>>>>}
        three == <<<<0, 0>>, <<6, 0>>, <<3, 4>>>>
        four == <<<<0, 0>>, <<6, 0>>, <<3, 4>>, <<3, 0 - 4>>>>
    IN {[centers |-> <<<<0, 0>>>>, radii |-> <<r>>] : r \in becke_radii}
       \cup {[centers |-> c, radii |-> r] : c \in pairs, r \in [1..2 -> becke_radii]}
       \cup {[centers |-> three, radii |-> r] :
                r \in {<<1, 1, 1>>, <<1, 2, 3>>, <<3, 1, 2>>, <<2, 2, 1>>}}
       \cup {[centers |-> four, radii |-> r] :
                r \in {<<2, 2, 2, 2>>, <<1, 2, 3, 1>>, <<3, 3, 1, 3>>}}

\* s(p^k(nu)) for the values of nu that occur and the orders k, worked out
\* once
becke_switch ==
    LET pairs(mol) == {ib \in (1..Len(mol.centers)) \X (1..Len(mol.centers)) :
                           ib[1] # ib[2]}
        seen(mol) == {p \in becke_points :
                         \A c \in 1..Len(mol.centers) :
                             becke_whole_distance(p, mol.centers[c])}
        nus == UNION {UNION {{becke_nu(p, mol.radii, mol.centers, ib[1], ib[2]) :
                                 ib \in pairs(mol)} : p \in seen(mol)} :
                      mol \in becke_molecules}
    IN [n \in nus |-> [k \in 1..DefaultOrder |->
           switch_function(switch_iterated(nu_fraction(n), k))]]

\* the cell function of atom i at the point: the product over the other
\* atoms B of s(p^k(nu_iB))
RECURSIVE becke_cell(_, _, _, _, _, _)
becke_cell(point, radii, centers, order, i, b) ==
    IF b > Len(centers) THEN fraction(FALSE, big(1), big(1))
    ELSE IF b = i THEN becke_cell(point, radii, centers, order, i, b + 1)
    ELSE fraction_mul(becke_switch[becke_nu(point, radii, centers, i, b)][order],
                      becke_cell(point, radii, centers, order, i, b + 1))

RECURSIVE fraction_sum(_, _)
fraction_sum(cells, i) ==
    IF i = Len(cells) THEN cells[i]
    ELSE fraction_add(cells[i], fraction_sum(cells, i + 1))

\* becke_helper_atom(points, weights, radii, centers, select, order) at one
\* point: the factor the local weight is multiplied by, as the cell function
\* of atom `select` over the sum of the cell functions of all atoms
becke_factor(point, radii, centers, select, order) ==
    LET cells == [i \in 1..Len(centers) |->
                     becke_cell(point, radii, centers, order, i, 1)]
    IN IF Len(cells) = 1 THEN [nom |-> cells[1], denom |-> cells[1]]
       ELSE [nom |-> cells[select], denom |-> fraction_sum(cells, 1)]

InitBeckeIdle ==
    /\ bk_centers = <<>>
    /\ bk_radii = <<>>
    /\ bk_point = <<0, 0>>
    /\ bk_order = 0
    /\ bk_select = 0
    /\ bk_factors = <<>>

\* the call of becke_helper_atom for the next atom (molgrid.py:135-137, 250-253)
call_becke_helper_atom ==
    /\ bk_select < Len(bk_centers)
    /\ bk_select' = bk_select + 1
    /\ bk_factors' = Append(bk_factors,
                            becke_factor(bk_point, bk_radii, bk_centers,
                                         bk_select + 1, bk_order))
    /\ UNCHANGED <<bk_centers, bk_radii, bk_point, bk_order>>
    /\ UNCHANGED notbk

InitGreedyIdle ==
    /\ gc_greedy = FALSE
    /\ gc_charges = <<>>
    /\ gc_grids = <<>>
    /\ gc_store = <<>>
    /\ gc_seen = {}
    /\ gc_op = "none"
    /\ gc_request = {}
    /\ gc_new = {}
    /\ gc_result = <<>>
    /\ gc_calls = 0

InitSystemIdle ==
    /\ sy_coordinates = <<>>
    /\ sy_obasis = [none |-> TRUE, centers |-> <<>>, nbasis |-> 0]
    /\ sy_obasis_desc = FALSE
    /\ sy_grid = [none |-> TRUE, mode |-> "discard", numbers |-> <<>>, centers |-> <<>>]
    /\ sy_wfn = [none |-> TRUE, nbasis |-> 0]
    /\ sy_cache = {}
    /\ sy_extra = FALSE
    /\ sy_op = "none"
    /\ sy_result = "none"

InitAtgridIdle ==
    /\ atg_number = 0
    /\ atg_pseudo_number = 0
    /\ atg_center = 0
    /\ atg_random_rotate = FALSE
    /\ atg_buffer = [none |-> TRUE, len |-> 0]
    /\ atg_pc = "none"
    /\ atg_result = "none"
    /\ atg_nlls = <<>>
    /\ atg_points = <<>>
    /\ atg_weights = <<>>
    /\ atg_av_weights = <<>>
    /\ atg_updates = 0

InitMolgridFileIdle ==
    /\ h5_molecule = <<>>
    /\ h5_agspec = <<>>
    /\ h5_mode = "discard"
    /\ h5_pc = "none"
    /\ h5_records = <<>>
    /\ h5_grp = <<>>
    /\ h5_reloaded = <<>>
    /\ h5_op = "none"

-----------------------------------------------------------------------------
(* The partitioning runs *)

InitProatomIdle ==
    /\ q_sys = [numbers |-> <<1>>, pseudo_numbers |-> <<1>>]
    /\ q_charges = <<0>>
    /\ q_greedy = {}
    /\ q_op = "none"
    /\ q_info = [icharge |-> 0, x |-> 0]
    /\ q_result = Raise("none")

InitPartIdle ==
    /\ pc = "idle"
    /\ heap = <<>>
    /\ cache = <<>>
    /\ at_weights = <<>>
    /\ history_propars = <<>>
    /\ history_charges = <<>>
    /\ counter = 0
    /\ change = 0
    /\ old_propars = <<>>
    /\ index = 0
    /\ done_just_once = FALSE
    /\ calls = 0
    /\ kernel = <<>>

Init ==
    /\ policy \in {"hi", "is"}
    /\ threshold \in 0..MaxThreshold
    /\ maxiter \in (0 - 1)..MaxIter
    /\ InitPartIdle
    /\ InitProatomIdle
    /\ InitAgspecIdle
    /\ InitMolgridIdle
    /\ InitBeckeIdle
    /\ InitGreedyIdle
    /\ InitSystemIdle
    /\ InitAtgridIdle
    /\ InitMolgridFileIdle

Next ==
    \/ do_partitioning
    \/ loop_begin
    \/ append_history_propars
    \/ update_at_weights
    \/ update_propars_atom_hi
    \/ update_propars_atom_is
    \/ append_history_charges
    \/ do_compute_change
    \/ test_convergence
    \/ finalize_propars
    \/ dump_niter
    \/ dump_change
    \/ just_once_return

Spec == Init /\ [][Next]_vars

-----------------------------------------------------------------------------
(* Pure calls of the Hirshfeld-I pro-atom functions on a one-atom system *)

one_atom_systems ==
    {[numbers |-> <<1>>, pseudo_numbers |-> <<1>>],
     [numbers |-> <<3>>, pseudo_numbers |-> <<3>>],
     [numbers |-> <<3>>, pseudo_numbers |-> <<1>>]}

InitProatom ==
    /\ q_sys \in one_atom_systems
    /\ q_charges \in {<<c>> : c \in (0 - MaxCharge)..MaxCharge}
    /\ q_greedy = {}
    /\ q_op = "none"
    /\ q_info = [icharge |-> 0, x |-> 0]
    /\ q_result = Raise("none")
    /\ policy = "hi"
    /\ threshold = 0
    /\ maxiter = 0
    /\ InitPartIdle
    /\ InitAgspecIdle
    /\ InitMolgridIdle
    /\ InitBeckeIdle
    /\ InitGreedyIdle
    /\ InitSystemIdle
    /\ InitAtgridIdle
    /\ InitMolgridFileIdle

call_get_interpolation_info ==
    /\ q_op' = "get_interpolation_info"
    /\ q_info' = get_interpolation_info(1, q_charges)
    /\ UNCHANGED <<q_sys, q_charges, q_greedy, q_result>>
    /\ UNCHANGED notproatom

call_get_proatom_rho ==
    /\ q_op' = "get_proatom_rho"
    /\ q_info' = get_interpolation_info(1, q_charges)
    /\ q_result' = get_proatom_rho_hi(q_sys, 1, q_charges)
    /\ UNCHANGED <<q_sys, q_charges, q_greedy>>
    /\ UNCHANGED notproatom

call_eval_proatom ==
    /\ q_op' = "eval_proatom"
    /\ q_info' = get_interpolation_info(1, q_charges)
    /\ LET r == eval_proatom(q_sys, 1, q_charges, q_greedy)
       IN /\ q_result' = r.result
          /\ q_greedy' = r.greedy
    /\ UNCHANGED <<q_sys, q_charges>>
    /\ UNCHANGED notproatom

NextProatom ==
    \/ call_get_interpolation_info
    \/ call_get_proatom_rho
    \/ call_eval_proatom

SpecProatom == InitProatom /\ [][NextProatom]_vars

-----------------------------------------------------------------------------
(* The runs of an AtomicGridSpec *)

InitAgspec ==
    /\ ag_definition \in definitions
    /\ ag_pc = "none"
    /\ ag_error = "none"
    /\ ag_name = <<>>
    /\ ag_members = no_members
    /\ ag_op = "none"
    /\ ag_args = <<0, 0>>
    /\ ag_result = get_result("none", no_rgrid, <<>>)
    /\ ag_grp = no_group
    /\ ag_reloaded = no_reload
    /\ policy = "hi"
    /\ threshold = 0
    /\ maxiter = 0
    /\ InitPartIdle
    /\ InitProatomIdle
    /\ InitMolgridIdle
    /\ InitBeckeIdle
    /\ InitGreedyIdle
    /\ InitSystemIdle
    /\ InitAtgridIdle
    /\ InitMolgridFileIdle

NextAgspec ==
    \/ AtomicGridSpec
    \/ call_get
    \/ call_to_hdf5
    \/ call_from_hdf5

SpecAgspec == InitAgspec /\ [][NextAgspec]_vars

-----------------------------------------------------------------------------
(* The runs of a BeckeMolGrid *)

InitMolgrid ==
    /\ mg_system \in systems
    /\ mg_mode \in {"discard", "keep", "only", "all"}
    /\ mg_pc = "none"
    /\ mg_centers = <<>>
    /\ mg_numbers = <<>>
    /\ mg_pseudo_numbers = <<>>
    /\ mg_points = <<>>
    /\ mg_weights = <<>>
    /\ mg_subgrids = no_subgrids
    /\ mg_op = "none"
    /\ mg_result = "none"
    /\ mg_updates = 0
    /\ policy = "hi"
    /\ threshold = 0
    /\ maxiter = 0
    /\ InitPartIdle
    /\ InitProatomIdle
    /\ InitAgspecIdle
    /\ InitBeckeIdle
    /\ InitGreedyIdle
    /\ InitSystemIdle
    /\ InitAtgridIdle
    /\ InitMolgridFileIdle

NextMolgrid ==
    \/ BeckeMolGrid
    \/ integrate
    \/ update_centers

SpecMolgrid == InitMolgrid /\ [][NextMolgrid]_vars

-----------------------------------------------------------------------------
(* The runs of the Becke partition *)

InitBecke ==
    /\ \E m \in becke_molecules :
          /\ bk_centers = m.centers
          /\ bk_radii = m.radii
    /\ bk_point \in {p \in becke_points :
                        \A i \in 1..Len(bk_centers) : becke_whole_distance(p, bk_centers[i])}
    /\ bk_order \in 1..DefaultOrder
    /\ bk_select = 0
    /\ bk_factors = <<>>
    /\ policy = "hi"
    /\ threshold = 0
    /\ maxiter = 0
    /\ InitPartIdle
    /\ InitProatomIdle
    /\ InitAgspecIdle
    /\ InitMolgridIdle
    /\ InitGreedyIdle
    /\ InitSystemIdle
    /\ InitAtgridIdle
    /\ InitMolgridFileIdle

NextBecke == call_becke_helper_atom

SpecBecke == InitBecke /\ [][NextBecke]_vars

-----------------------------------------------------------------------------
(* Properties of do_partitioning *)

max(a, b) == IF a >= b THEN a ELSE b

\* the positions after the loop has been left
Finishing == {"finalize", "dump_niter", "dump_change", "return", "done"}

\* the positions of an iteration after its charges have been appended
Measured == {"compute_change", "test"} \cup Finishing

Last(s) == s[Len(s)]

C1_niter_inv ==
    /\ counter <= max(maxiter, 1)
    /\ in_cache("niter") => cache["niter"] = counter
    /\ (pc = "loop" /\ counter >= 1) => counter < maxiter
    /\ pc \in Finishing => load("charges") = deref(Last(history_charges))
    /\ in_cache("change") => cache["change"] = change
    /\ pc = "done" => in_cache("niter") /\ in_cache("change")

\* at the cap the test leaves the loop, and nothing after the loop raises
C1_cap_step ==
    /\ (pc = "test" /\ counter >= maxiter) => pc' = "finalize"
    /\ pc \in Finishing => pc' \in Finishing

C2_stops_at_first_converged ==
    /\ (in_cache("change") /\ cache["niter"] < maxiter)
          => below_threshold(cache["change"], threshold)
    /\ (pc = "loop" /\ counter >= 1) => ~below_threshold(change, threshold)
    /\ (pc \in {"history_propars", "update_at_weights", "update_atom", "compute_change"}
          /\ counter >= 2) => ~below_threshold(change, threshold)
    /\ (pc \in Finishing /\ change = threshold * threshold) => counter >= maxiter

C2_equal_is_not_converged ==
    /\ pc = "loop"
    /\ counter = 1
    /\ threshold > 0
    /\ change = threshold * threshold

C3_completed ==
    pc = "done" => done_just_once /\ ~is_new

C3_call_step ==
    pc = "done" =>
        UNCHANGED <<pc, heap, cache, at_weights, history_propars,
                    history_charges, counter, change, kernel>>

\* C3: once do_partitioning has completed, a further invocation runs no
\* iteration and changes none of the results.
C3_repeated_call_is_noop == []C3_completed /\ [][C3_call_step]_vars

C3_called_again ==
    /\ pc = "done"
    /\ calls >= 2
    /\ counter >= 2

\* C4 as stated: both snapshots of an iteration are taken after its update,
\* so on termination the last entries are the final propars and charges.
C4_both_snapshots_after_update ==
    pc = "done" =>
        /\ deref(Last(history_propars)) = load("propars")
        /\ deref(Last(history_charges)) = load("charges")

\* C4, amended: the charges snapshot of an iteration is taken after its
\* update and the propars snapshot before it; on termination the last entry
\* of history_charges is the final charges and the last entry of
\* history_propars is the propars the last iteration started from.
C4_snapshot_positions ==
    /\ pc \in Measured => deref(Last(history_charges)) = load("charges")
    /\ pc \in ({"update_at_weights", "update_atom"} \cup Measured)
          => deref(Last(history_propars)) = old_propars
    /\ pc = "done" => /\ cache["history_propars"][cache["niter"]] = old_propars
                      /\ cache["history_charges"][cache["niter"]] = load("charges")

C4_last_iteration_moved ==
    /\ pc = "done"
    /\ policy = "is"
    /\ counter >= 2
    /\ deref(Last(history_propars)) # load("propars")

C5_history_inv ==
    /\ Len(history_charges) <= Len(history_propars)
    /\ Len(history_propars) <= Len(history_charges) + 1
    /\ Len(history_propars) <= counter
    /\ pc \in Measured => /\ Len(history_propars) = counter
                          /\ Len(history_charges) = counter
    /\ in_cache("niter") => /\ Len(history_propars) = cache["niter"]
                            /\ Len(history_charges) = cache["niter"]
                            /\ Len(cache["history_propars"]) = cache["niter"]
                            /\ Len(cache["history_charges"]) = cache["niter"]

C5_history_step ==
    /\ Len(history_propars') \in {Len(history_propars), Len(history_propars) + 1}
    /\ Len(history_charges') \in {Len(history_charges), Len(history_charges) + 1}
    /\ \A k \in 1..Len(history_propars) :
           deref(history_propars[k])' = deref(history_propars[k])
    /\ \A k \in 1..Len(history_charges) :
           deref(history_charges[k])' = deref(history_charges[k])

\* C5: the history lists only grow, by one entry each per iteration, the
\* entries appended keep their contents, and on termination both hold niter
\* entries.
C5_history_append_only == []C5_history_inv /\ [][C5_history_step]_vars

C5_two_distinct_entries ==
    /\ pc = "done"
    /\ Len(history_propars) >= 2
    /\ deref(history_propars[1]) # deref(history_propars[2])
    /\ deref(history_charges[1]) # deref(history_charges[2])


\* the pro-atoms the running iteration started from
iteration_start == deref(Last(history_propars))

\* the integration result of atom i for the weights derived from propars
kernel_at(i, propars) == kernel[<<i, stockholder_weights(propars)[i]>>]

kernel_known(i, propars) == <<i, stockholder_weights(propars)[i]>> \in DOMAIN kernel

\* C6: during an iteration the weights in force are the ones derived from
\* the pro-atoms the iteration started with, and the charge of every atom
\* already updated is the one computed from those weights, whatever the
\* atoms updated before it have become.
C6_jacobi_update ==
    pc \in {"update_atom", "compute_change", "test"} =>
        /\ at_weights = stockholder_weights(iteration_start)
        /\ \A i \in Atoms : i < index =>
              /\ kernel_known(i, iteration_start)
              /\ load("charges")[i] = Den * system.pseudo_numbers[i]
                    - (IF policy = "hi" THEN kernel_at(i, iteration_start)
                       ELSE SumSeq(kernel_at(i, iteration_start)))

C6_second_atom_after_first_moved ==
    /\ pc = "update_atom"
    /\ policy = "hi"
    /\ index = 3
    /\ counter = 2
    /\ load("charges")[1] # iteration_start[1]
    /\ load("charges")[2] # iteration_start[2]

\* C7: the stored populations are numbers - charges and pseudo_numbers -
\* charges of the last iterate, and niter and change are stored after them,
\* niter first.
C7_finalized_outputs ==
    /\ in_cache("populations") =>
          /\ in_cache("pseudo_populations")
          /\ \A i \in Atoms :
                /\ cache["populations"][i]
                      = Den * system.numbers[i] - deref(Last(history_charges))[i]
                /\ cache["pseudo_populations"][i]
                      = Den * system.pseudo_numbers[i] - load("charges")[i]
    /\ in_cache("niter") => in_cache("populations") /\ in_cache("history_charges")
    /\ in_cache("change") => in_cache("niter")
    /\ pc = "done" => in_cache("populations") /\ in_cache("change")

C7_finalized_nonzero_charges ==
    /\ pc = "dump_niter"
    /\ ~in_cache("niter")
    /\ in_cache("populations")
    /\ \A i \in Atoms : load("charges")[i] # 0

C10_is_atom_inv ==
    (policy = "is" /\ pc = "update_atom") =>
        \A i \in Atoms : i < index =>
            /\ \A k \in (ranges[i] + 1)..ranges[i + 1] : load("propars")[k] >= TinyFloor
            /\ kernel_known(i, iteration_start)
            /\ load("charges")[i] = Den * system.pseudo_numbers[i]
                                    - SumSeq(kernel_at(i, iteration_start))

C10_is_atom_step ==
    update_propars_atom_is =>
        /\ \A k \in 1..Len(load("propars")) :
              (k <= ranges[index] \/ k > ranges[index + 1])
                  => load("propars")'[k] = load("propars")[k]
        /\ \A i \in Atoms \ {index} :
              load("charges")'[i] = IF in_cache("charges") THEN load("charges")[i] ELSE 0
        /\ cache["propars"]' = cache["propars"]

\* C10: after the Iterative Stockholder update of an atom every entry of its
\* propars segment is at least the floor, its charge is the pseudo number
\* minus the sum of the unclipped shell integrals, and the update writes
\* only the atom's own segment and charge.
C10_is_atom_update == []C10_is_atom_inv /\ [][C10_is_atom_step]_vars

C10_clipped_shell ==
    /\ policy = "is"
    /\ pc = "update_atom"
    /\ index = 3
    /\ counter = 2
    /\ load("propars")[2] = TinyFloor
    /\ load("propars")[3] > TinyFloor
    /\ kernel_at(2, iteration_start)[1] < 0

-----------------------------------------------------------------------------
(* The convergence measure of Hirshfeld-I *)

\* the charges the running iteration started from and the ones it produced
charges_before ==
    IF Len(history_charges) >= 2
    THEN deref(history_charges[Len(history_charges) - 1])
    ELSE zeros(natom(system))

charges_after == deref(Last(history_charges))

abs(a) == IF a >= 0 THEN a ELSE 0 - a

max_charge_change ==
    LET d == [i \in Atoms |-> abs(charges_after[i] - charges_before[i])]
    IN CHOOSE v \in {d[i] : i \in Atoms} : \A i \in Atoms : d[i] <= v

\* the squared distance of the pro-atom densities of two charge vectors
density_distance_sq(q1, q2) ==
    LET delta == [i \in Atoms |->
                     rho_value(get_proatom_rho_hi(system, i, q1))
                     - rho_value(get_proatom_rho_hi(system, i, q2))]
    IN SumSeq([i \in Atoms |-> delta[i] * delta[i]])

-----------------------------------------------------------------------------
(* Properties of the Hirshfeld-I pro-atom functions *)

q_called == q_op # "none"

C9_no_density_without_population ==
    (q_op \in {"get_proatom_rho", "eval_proatom"}
        /\ q_sys.pseudo_numbers[1] - (q_charges[1] \div Den) <= 0)
            => q_result.tag # "rho"

-----------------------------------------------------------------------------
(* Properties of AtomicGridSpec *)

ascending(l) ==
    \A i \in 1..(Len(l) - 1) : l[i].pseudo_number <= l[i + 1].pseudo_number

get_called == ag_result.tag # "none"

\* C12: the lists of a constructed AtomicGridSpec (also one made by
\* from_hdf5) are ascending in the threshold; get returns a record of the
\* element whose threshold is the smallest one >= pseudo_number, and raises
\* when the element has no record or every threshold is < pseudo_number.
C12_get_least_upper_threshold ==
    /\ (ag_pc = "ready" /\ ag_members.has) =>
           \A n \in DOMAIN ag_members.table : ascending(ag_members.table[n])
    /\ ag_reloaded.tag = "ok" =>
           \A n \in DOMAIN ag_reloaded.members.table :
               ascending(ag_reloaded.members.table[n])
    /\ get_called =>
           LET number == ag_args[1]
               pseudo_number == ag_args[2]
               l == IF ag_members.has /\ number \in DOMAIN ag_members.table
                    THEN ag_members.table[number] ELSE <<>>
               fit == {k \in 1..Len(l) : l[k].pseudo_number >= pseudo_number}
           IN IF fit = {} THEN ag_result.tag \in {"ValueError", "AttributeError"}
              ELSE /\ ag_result.tag = "ok"
                   /\ \E k \in fit :
                         /\ ag_result.rgrid = l[k].rgrid
                         /\ ag_result.nlls = l[k].nlls
                         /\ \A o \in fit : l[k].pseudo_number <= l[o].pseudo_number

C12_smaller_threshold_given_last ==
    /\ ag_definition.form = "list"
    /\ Len(ag_definition.list) = 2
    /\ ag_definition.list[1].number = 3
    /\ ag_definition.list[2].number = 3
    /\ ag_definition.list[1].pseudo_number = 3
    /\ ag_definition.list[2].pseudo_number = 1
    /\ ag_args = <<3, 1>>
    /\ ag_result.tag = "ok"
    /\ ag_result.rgrid = ag_definition.list[2].rgrid

\* C13: for a radial grid of n shells a scalar or a one-element sequence
\* becomes the array of n copies of the value, a sequence of n elements is
\* kept as it is, a sequence of another length raises ValueError; every
\* record of a constructed AtomicGridSpec has exactly n angular counts.
C13_nlls_normalized ==
    /\ (ag_definition.form = "tuple" /\ ag_pc # "none") =>
           LET n == rgrid_size_of(ag_definition.rgrid)
               a == ag_definition.nlls
           IN IF ~a.iter \/ Len(a.items) = 1
              THEN /\ ag_pc = "ready"
                   /\ \A number \in DOMAIN ag_members.table :
                         ag_members.table[number][1].nlls = [s \in 1..n |-> a.items[1]]
              ELSE IF Len(a.items) = n
              THEN /\ ag_pc = "ready"
                   /\ \A number \in DOMAIN ag_members.table :
                         ag_members.table[number][1].nlls = a.items
              ELSE ag_pc = "raised" /\ ag_error = "ValueError"
    /\ (ag_definition.form = "list" /\ ag_pc # "none"
           /\ \E k \in 1..Len(ag_definition.list) :
                 /\ ag_definition.list[k].nlls.iter
                 /\ Len(ag_definition.list[k].nlls.items)
                       \notin {1, rgrid_size_of(ag_definition.list[k].rgrid)})
          => ag_pc = "raised" /\ ag_error = "ValueError"
    /\ (ag_pc = "ready" /\ ag_members.has) =>
           \A number \in DOMAIN ag_members.table :
               \A k \in 1..Len(ag_members.table[number]) :
                   Len(ag_members.table[number][k].nlls)
                       = rgrid_size_of(ag_members.table[number][k].rgrid)

C13_one_element_broadcast ==
    /\ ag_definition.form = "tuple"
    /\ ag_definition.nlls.iter
    /\ Len(ag_definition.nlls.items) = 1
    /\ rgrid_size_of(ag_definition.rgrid) >= 2
    /\ ag_pc = "ready"
    /\ Len(ag_members.table[1][1].nlls) = rgrid_size_of(ag_definition.rgrid)

\* a text that is no existing local file, no built-in grid file name, none
\* of the six quality names and not of the five-field inline form
unresolvable(text) ==
    /\ ~os_path_isfile(text)
    /\ ~os_path_isfile(context_get_fn(grids_txt(text)))
    /\ ~(Len(text) = 1 /\ text[1] \in DOMAIN simple_names)
    /\ count_colons(text) # 4

\* C14: the constructor raises for an unresolvable text, and no
\* AtomicGridSpec is returned without a members table.
C14_unresolvable_text_raises ==
    /\ (ag_definition.form = "string" /\ unresolvable(ag_definition.text)
           /\ ag_pc # "none") => ag_pc = "raised"
    /\ ag_pc = "ready" => ag_members.has

\* what the round trip is compared on: per element the thresholds, the
\* strings of the radial transforms and the angular counts, in their order
records_view(table) ==
    [n \in DOMAIN table |->
        [k \in 1..Len(table[n]) |->
            <<table[n][k].pseudo_number,
              rtransform_to_string(table[n][k].rgrid.rtransform),
              table[n][k].nlls>>]]

\* C15: from_hdf5 of a group written by to_hdf5 without selection succeeds
\* and gives the same elements with, per element, the same ordered list of
\* (threshold, radial-transform string, angular counts).
C15_hdf5_round_trip ==
    /\ ag_grp.tag = "ok" => ag_reloaded.tag \in {"none", "ok"}
    /\ ag_reloaded.tag = "ok" =>
           records_view(ag_reloaded.members.table) = records_view(ag_members.table)

C15_two_records_reloaded ==
    /\ ag_reloaded.tag = "ok"
    /\ 3 \in DOMAIN ag_members.table
    /\ Len(ag_members.table[3]) = 2
    /\ ag_members.table[3][1].pseudo_number < ag_members.table[3][2].pseudo_number
    /\ ag_reloaded.members.table[3][1].rgrid # ag_members.table[3][1].rgrid

-----------------------------------------------------------------------------
(* Properties of BeckeMolGrid *)

\* C16: integrate of a grid of mode 'only' always fails with
\* NotImplementedError, also after update_centers, because the mode never
\* changes; a grid of mode 'keep' or 'discard' never fails for that reason.
C16_integrate_fails_iff_only ==
    /\ [](mg_op = "integrate"
            => (mg_result = "NotImplementedError" <=> mg_mode = "only"))
    /\ [][mg_mode' = mg_mode]_vars

C16_only_fails_after_update ==
    /\ mg_mode = "only"
    /\ mg_op = "integrate"
    /\ mg_result = "NotImplementedError"
    /\ mg_updates >= 1
    /\ mg_system = System(mg_centers, mg_numbers, mg_pseudo_numbers)
    /\ \E p \in 1..Len(mg_points) : mg_points[p].center # 0

\* C17: the molecular weights of a grid of mode 'only' are all zero after
\* the construction and after any number of calls of update_centers.
C17_only_weights_stay_zero ==
    (mg_pc = "ready" /\ mg_mode = "only") =>
        \A p \in 1..Len(mg_weights) : mg_weights[p] = zero_weight

\* C18: update_centers fails when the subgrids were not kept, when the
\* number of atoms differs or when numbers or pseudo-numbers differ, and a
\* failing call leaves centers, points, weights and subgrids as they were.
C18_failed_update_changes_nothing ==
    [][(mg_updates' = mg_updates + 1) =>
          LET mismatch ==
                  \/ Len(mg_subgrids.list) # Len(mg_system'.numbers)
                  \/ mg_numbers # mg_system'.numbers
                  \/ mg_pseudo_numbers # mg_system'.pseudo_numbers
          IN /\ mg_subgrids.none => mg_result' = "RuntimeError"
             /\ (~mg_subgrids.none /\ mismatch) => mg_result' = "ValueError"
             /\ (~mg_subgrids.none /\ ~mismatch) => mg_result' = "ok"
             /\ mg_result' # "ok" =>
                    UNCHANGED <<mg_centers, mg_numbers, mg_pseudo_numbers,
                                mg_points, mg_weights, mg_subgrids>>]_vars

C18_other_elements_elsewhere ==
    /\ mg_op = "update_centers"
    /\ mg_result = "ValueError"
    /\ Len(mg_system.numbers) = Len(mg_numbers)
    /\ mg_system.numbers # mg_numbers
    /\ mg_system.coordinates # mg_centers

\* the number of points of the molecular grid that belong to atom i
points_of(i) == Cardinality({p \in 1..Len(mg_points) : mg_points[p].atom = i})

\* C19: the points and weights of the atoms are contiguous, disjoint
\* sub-ranges in the order of the atoms, the first at offset 0 and the i-th
\* of the size agspec.get_size gives, and update_centers writes the same
\* ranges.
C19_atoms_own_contiguous_ranges ==
    mg_pc = "ready" =>
        /\ Len(mg_weights) = Len(mg_points)
        /\ \A p \in 1..Len(mg_points) :
              /\ mg_points[p].atom \in 1..Len(mg_numbers)
              /\ mg_points[p].center = mg_centers[mg_points[p].atom]
              /\ p = 1 => mg_points[p].atom = 1
              /\ p > 1 => mg_points[p].atom \in {mg_points[p - 1].atom,
                                                 mg_points[p - 1].atom + 1}
              /\ \/ mg_weights[p] = zero_weight
                 \/ /\ mg_weights[p].atom = mg_points[p].atom
                    /\ mg_weights[p].shell = mg_points[p].shell
                    /\ mg_weights[p].becke = mg_centers
        /\ \A i \in 1..Len(mg_numbers) :
              points_of(i) = agspec_get_size(molgrid_agspec.members, mg_numbers[i],
                                             mg_pseudo_numbers[i]).size
        /\ ~mg_subgrids.none =>
              \A i \in 1..Len(mg_numbers) :
                  /\ mg_subgrids.list[i].offset
                        = SumSeq([j \in 1..(i - 1) |-> points_of(j)])
                  /\ atgrid_size(mg_subgrids.list[i]) = points_of(i)

C19_second_atom_moved ==
    /\ mg_pc = "ready"
    /\ mg_op = "update_centers"
    /\ mg_result = "ok"
    /\ Len(mg_numbers) = 2
    /\ points_of(1) > Len(mg_subgrids.list[1].nlls)
    /\ mg_centers = <<0, 1>>
    /\ mg_weights[Len(mg_weights)].becke = <<0, 1>>

-----------------------------------------------------------------------------
(* Properties of the Becke partition *)

-----------------------------------------------------------------------------
(* The first iteration of do_partitioning *)

C25_first_iteration_inv ==
    /\ pc \in ({"test"} \cup Finishing) =>
          /\ counter >= 1
          /\ Len(history_propars) >= 1
          /\ Len(history_charges) >= 1
    /\ in_cache("niter") =>
          /\ cache["niter"] >= 1
          /\ Len(cache["history_propars"]) >= 1
          /\ Len(cache["history_charges"]) >= 1
    /\ pc = "done" => in_cache("niter")

C25_first_iteration_step ==
    /\ (pc' = "test" /\ pc # "test") => pc = "compute_change"
    /\ (pc' = "finalize" /\ pc # "finalize") => pc = "test"
    /\ (pc \in {"idle", "done"} /\ pc' \notin {"idle", "done"}) => pc' = "loop"

-----------------------------------------------------------------------------
(* The propars of Hirshfeld-I are its charges *)

\* C26: in Hirshfeld-I propars and charges are one array, zeros at the
\* start; the first propars snapshot is all zeros, every later one equals
\* the charges snapshot of the iteration before it, and the change of an
\* iteration is measured between the charges before and after it.
C26_propars_are_charges ==
    policy = "hi" =>
        /\ in_cache("propars") <=> in_cache("charges")
        /\ in_cache("propars") => cache["propars"] = cache["charges"]
        /\ (pc = "loop" /\ counter = 0) => load("charges") = zeros(natom(system))
        /\ Len(history_propars) >= 1 =>
              deref(history_propars[1]) = zeros(natom(system))
        /\ \A k \in 1..Len(history_charges) :
              k + 1 <= Len(history_propars) =>
                  deref(history_propars[k + 1]) = deref(history_charges[k])
        /\ in_cache("niter") =>
              \A k \in 1..(cache["niter"] - 1) :
                  cache["history_propars"][k + 1] = cache["history_charges"][k]
        /\ pc \in Measured => old_propars = charges_before
        /\ pc = "test" =>
              change = compute_change(charges_after, charges_before).value

C26_charges_became_propars ==
    /\ policy = "hi"
    /\ pc = "done"
    /\ cache["niter"] >= 2
    /\ cache["history_propars"][2] # zeros(natom(system))
    /\ cache["history_propars"][2] = cache["history_charges"][1]
    /\ cache["history_charges"][2] # cache["history_charges"][1]

-----------------------------------------------------------------------------
(* The electron count of the Hirshfeld-I pro-atom *)

\* the records of r weighted with the pseudo-population N - q of each
RECURSIVE weighted_count(_, _, _)
weighted_count(r, N, S) ==
    IF S = {} THEN 0
    ELSE LET q == CHOOSE q \in S : TRUE
         IN r.coeffs[q] * (N - q) + weighted_count(r, N, S \ {q})

\* C27: a density returned by get_proatom_rho for an atom of pseudo number N
\* and charge c combines its records with weights whose electron count
\* w_q (N - q) + w_{q+1} (N - q - 1) is N - c, with two records and with one
\* (pseudo-population 1, or x = 0).
C27_electron_count ==
    (q_op = "get_proatom_rho" /\ q_result.tag = "rho") =>
        LET N == q_sys.pseudo_numbers[1]
            c == q_charges[1]
            q == q_info.icharge
        IN /\ weighted_count(q_result, N, DOMAIN q_result.coeffs) = Den * N - c
           /\ DOMAIN q_result.coeffs \in {{q}, {q, q + 1}}
           /\ DOMAIN q_result.coeffs = {q} <=> (N - q = 1 \/ q_info.x = 0)

C27_one_electron_fraction ==
    /\ q_op = "get_proatom_rho"
    /\ q_result.tag = "rho"
    /\ q_sys.pseudo_numbers[1] - q_info.icharge = 1
    /\ q_info.x # 0
    /\ DOMAIN q_result.coeffs = {q_info.icharge}

-----------------------------------------------------------------------------
(* The greedy pro-atom and the pro-atom density *)

C28_same_outcome ==
    q_op = "eval_proatom" =>
        LET rho == get_proatom_rho_hi(q_sys, 1, q_charges)
        IN /\ q_result.tag = "rho" <=> rho.tag = "rho"
           /\ q_result.tag = "rho" => q_result.coeffs = rho.coeffs
           /\ q_result.tag = "ValueError" <=> rho.tag = "ValueError"

C28_failure_adds_nothing ==
    (q_op' = "eval_proatom" /\ q_result'.tag # "rho") => q_greedy' = q_greedy

\* C28: the greedy eval_proatom and get_proatom_rho agree for every atom
\* state: the same records with the same weights, and the error of a
\* negative population from one exactly when from the other; an eval_proatom
\* that raises has added no entry to the greedy cache.
C28_greedy_agrees_with_rho == []C28_same_outcome /\ [][C28_failure_adds_nothing]_vars

-----------------------------------------------------------------------------
(* The greedy cache of isolated ions (HirshfeldIMixin.get_somefn).           *)
(*                                                                         *)
(* A grid object lives at an address, which is what id(grid) returns.  The  *)
(* cache keeps the address, not the object: once the last reference to a    *)
(* grid is dropped, the object is freed and a grid made later can be given  *)
(* the same address.  An array is the map from the spline evaluations it is *)
(* made of, (index, charge, grid object), to their coefficients (in 1/Den). *)

MaxGrids == 3
MaxAddress == 2
MaxRequests == 3

\* the charges arrays of the calls: 0, 1/Den and -(1 + 1/Den) on each atom
greedy_charges ==
    {<<a, b>> : a \in {0, 1, 0 - Den - 1}, b \in {0, 1, 0 - Den - 1}}

\* id(grid)
id(grids, g) == grids[g].address

live_grids(grids) == {g \in 1..Len(grids) : grids[g].alive}

\* eval_spline(index, spline, result, grid): the spline of the ion on the
\* points of the grid, seen from the atom
eval_spline(i, charge, g) == <<i, charge, g>> :> Den

\* output * factor, output + other
array_times(a, factor) == [b \in DOMAIN a |-> (a[b] * factor) \div Den]

array_plus(a, other) ==
    [b \in DOMAIN a \cup DOMAIN other |->
        (IF b \in DOMAIN a THEN a[b] ELSE 0)
        + (IF b \in DOMAIN other THEN other[b] ELSE 0)]

\* get_somefn for the key ('isolated', charge): lines 84-94
get_somefn(store, greedy, grids, i, charge, g) ==
    LET key == <<"isolated", charge, i, id(grids, g)>>
        new == IF greedy THEN key \notin DOMAIN store ELSE TRUE
        result == IF new THEN eval_spline(i, charge, g) ELSE store[key]
    IN [tag |-> "ok", result |-> result,
        asked |-> {charge}, new |-> IF new THEN {charge} ELSE {},
        store |-> IF greedy /\ new THEN (key :> result) @@ store ELSE store]

\* get_isolated with a grid: the spline of the ion (KeyError without a
\* record), then get_somefn
get_isolated_on(store, greedy, grids, i, charge, g) ==
    IF proatomdb_has_record(system.numbers[i], charge)
    THEN get_somefn(store, greedy, grids, i, charge, g)
    ELSE [tag |-> "KeyError", result |-> <<>>, asked |-> {}, new |-> {},
          store |-> store]

\* eval_proatom with a grid: lines 103-111 (the 1e-100 added at the end is
\* below the resolution 1/Den)
eval_proatom_on(store, greedy, grids, charges, i, g) ==
    LET info == get_interpolation_info(i, charges)
        icharge == info.icharge
        x == info.x
        iso0 == get_isolated_on(store, greedy, grids, i, icharge, g)
        output0 == array_times(iso0.result, Den - x)
        pseudo_pop == system.pseudo_numbers[i] - icharge
        iso1 == get_isolated_on(iso0.store, greedy, grids, i, icharge + 1, g)
        both == [tag |-> iso1.tag,
                 result |-> IF iso1.tag = "ok"
                            THEN array_plus(output0, array_times(iso1.result, x))
                            ELSE <<>>,
                 asked |-> iso0.asked \cup iso1.asked,
                 new |-> iso0.new \cup iso1.new,
                 store |-> iso1.store]
    IN IF iso0.tag # "ok"
       THEN iso0
       ELSE IF pseudo_pop > 1 /\ x # 0
       THEN both
       ELSE IF pseudo_pop <= 0
       THEN [iso0 EXCEPT !.tag = "ValueError", !.result = <<>>]
       ELSE [iso0 EXCEPT !.result = output0]

\* a caller makes a grid: the allocator gives it any address no live object has
new_grid ==
    /\ Len(gc_grids) < MaxGrids
    /\ \E address \in 1..MaxAddress :
         /\ \A g \in live_grids(gc_grids) : gc_grids[g].address # address
         /\ gc_grids' = Append(gc_grids, [address |-> address, alive |-> TRUE])
    /\ UNCHANGED <<gc_greedy, gc_charges, gc_store, gc_seen, gc_op, gc_request,
                   gc_new, gc_result, gc_calls>>
    /\ UNCHANGED notgc

\* a caller drops the last reference to a grid it made; grid 1 is the one
\* the partitioner holds (get_grid)
del_grid ==
    /\ \E g \in live_grids(gc_grids) \ {1} :
         gc_grids' = [gc_grids EXCEPT ![g].alive = FALSE]
    /\ UNCHANGED <<gc_greedy, gc_charges, gc_store, gc_seen, gc_op, gc_request,
                   gc_new, gc_result, gc_calls>>
    /\ UNCHANGED notgc

\* what a call leaves behind; the requests are (index, charge, grid object)
greedy_call(op, r, i, g) ==
    /\ gc_calls < MaxRequests
    /\ gc_calls' = gc_calls + 1
    /\ gc_op' = op
    /\ gc_request' = {<<i, charge, g>> : charge \in r.asked}
    /\ gc_new' = {<<i, charge, g>> : charge \in r.new}
    /\ gc_result' = [tag |-> r.tag, array |-> r.result]
    /\ gc_store' = r.store
    /\ gc_seen' = gc_seen \cup gc_request
    /\ UNCHANGED <<gc_greedy, gc_charges, gc_grids>>
    /\ UNCHANGED notgc

call_get_isolated ==
    \E i \in Atoms, charge \in {0 - 1, 0}, g \in live_grids(gc_grids) :
        greedy_call("get_isolated",
                    get_isolated_on(gc_store, gc_greedy, gc_grids, i, charge, g), i, g)

call_eval_proatom_on ==
    \E i \in Atoms, g \in live_grids(gc_grids) :
        greedy_call("eval_proatom",
                    eval_proatom_on(gc_store, gc_greedy, gc_grids, gc_charges, i, g), i, g)

InitGreedy ==
    /\ gc_greedy \in BOOLEAN
    /\ gc_charges \in greedy_charges
    /\ gc_grids = <<[address |-> 1, alive |-> TRUE]>>
    /\ gc_store = <<>>
    /\ gc_seen = {}
    /\ gc_op = "none"
    /\ gc_request = {}
    /\ gc_new = {}
    /\ gc_result = <<>>
    /\ gc_calls = 0
    /\ policy = "hi"
    /\ threshold = 0
    /\ maxiter = 0
    /\ InitPartIdle
    /\ InitProatomIdle
    /\ InitAgspecIdle
    /\ InitMolgridIdle
    /\ InitBeckeIdle
    /\ InitSystemIdle
    /\ InitSystemIdle
    /\ InitAtgridIdle
    /\ InitMolgridFileIdle

NextGreedy ==
    \/ new_grid
    \/ del_grid
    \/ call_get_isolated
    \/ call_eval_proatom_on

SpecGreedy == InitGreedy /\ [][NextGreedy]_vars

-----------------------------------------------------------------------------
(* Properties of the greedy cache *)

C24_cache_inv ==
    /\ ~gc_greedy => gc_store = <<>> /\ gc_new = gc_request
    /\ gc_greedy => gc_new = gc_request \ gc_seen
    /\ (gc_op = "get_isolated" /\ gc_result.tag = "ok") =>
          \E t \in gc_request : gc_result.array = eval_spline(t[1], t[2], t[3])
    /\ (gc_op = "eval_proatom" /\ gc_result.tag = "ok") =>
          DOMAIN gc_result.array = gc_request

C24_cache_step ==
    \A key \in DOMAIN gc_store :
        key \in DOMAIN gc_store' /\ gc_store'[key] = gc_store[key]

\* C24: with greedy caching the isolated-ion density of an (atom index,
\* charge, grid object) is evaluated from the spline on the first request
\* only and later requests get the cached array, which no call modifies;
\* requests that differ in index, charge or grid never share an entry;
\* without greedy caching every request evaluates the spline and nothing is
\* stored.
C24_one_evaluation_per_request == []C24_cache_inv /\ [][C24_cache_step]_vars

-----------------------------------------------------------------------------
(* System (horton/system.py): the attributes a cached result depends on.    *)
(*                                                                         *)
(* The molecule is the one of the partitioning runs; an atom sits at a      *)
(* position 0..MaxCoordinate.  A cache entry is written as the set of its   *)
(* tags: 'c' (coordinates), 'o' (obasis), 'g' (grid).                       *)

\* the tags of the entries of the runs
system_tags == {{"c"}, {"o"}, {"g"}, {"c", "g"}, {"o", "g"}}

system_coordinates == [Atoms -> 0..MaxCoordinate]

No == [none |-> TRUE, centers |-> <<>>, nbasis |-> 0]

\* a GOBasis of nbasis functions on the atoms
GOBasis(centers, nbasis) == [none |-> FALSE, centers |-> centers, nbasis |-> nbasis]

no_grid == [none |-> TRUE, mode |-> "discard", numbers |-> <<>>, centers |-> <<>>]

\* a BeckeMolGrid as the System sees it: its mode (the subgrids are None in
\* mode 'discard'), the elements it was built for and its centers
system_grid(mode, numbers, centers) ==
    [none |-> FALSE, mode |-> mode, numbers |-> numbers, centers |-> centers]

\* the grids a System is given: built for the molecule itself, for one of
\* its atoms, or for the same atoms in the other order
system_grids ==
    {no_grid}
    \cup {system_grid(mode, system.numbers, c) :
              mode \in {"discard", "keep", "only"}, c \in system_coordinates}
    \cup {system_grid("keep", numbers, [i \in 1..Len(numbers) |-> 0]) :
              numbers \in {<<1>>, <<3, 1>>}}

\* Cache.clear(tags=...): every entry that carries one of the tags goes
cache_clear(entries, tags) == {e \in entries : e \cap tags = {}}

\* BeckeMolGrid.update_centers(system) of the attached grid: the checks of
\* lines 234-239, then the centers
grid_update_centers(grid, coordinates) ==
    IF grid.mode = "discard"
    THEN [tag |-> "RuntimeError", grid |-> grid]
    ELSE IF Len(grid.numbers) # natom(system)
    THEN [tag |-> "ValueError", grid |-> grid]
    ELSE IF grid.numbers # system.numbers
    THEN [tag |-> "ValueError", grid |-> grid]
    ELSE [tag |-> "ok", grid |-> [grid EXCEPT !.centers = coordinates]]

\* a result is stored in the cache with its tags, system.extra is written
cache_dump ==
    /\ \E tags \in system_tags : sy_cache' = sy_cache \cup {tags}
    /\ sy_op' = "dump"
    /\ sy_result' = "ok"
    /\ UNCHANGED <<sy_coordinates, sy_obasis, sy_obasis_desc, sy_grid, sy_wfn,
                   sy_extra>>
    /\ UNCHANGED notsy

set_extra ==
    /\ sy_extra' = TRUE
    /\ sy_op' = "extra"
    /\ sy_result' = "ok"
    /\ UNCHANGED <<sy_coordinates, sy_obasis, sy_obasis_desc, sy_grid, sy_wfn,
                   sy_cache>>
    /\ UNCHANGED notsy

\* update_coordinates(coordinates): lines 393-400; <<>> is the call without
\* an argument
update_coordinates ==
    \E coordinates \in {<<>>} \cup system_coordinates :
       LET coordinates1 == IF coordinates # <<>> THEN coordinates ELSE sy_coordinates
           moved == IF sy_grid.none THEN [tag |-> "ok", grid |-> sy_grid]
                    ELSE grid_update_centers(sy_grid, coordinates1)
       IN /\ sy_op' = "update_coordinates"
          /\ sy_coordinates' = coordinates1
          /\ sy_obasis' = IF sy_obasis.none THEN sy_obasis
                          ELSE [sy_obasis EXCEPT !.centers = coordinates1]
          /\ sy_grid' = moved.grid
          /\ sy_result' = moved.tag
          /\ IF moved.tag = "ok"
             THEN /\ sy_cache' = cache_clear(sy_cache, {"c", "o", "g"})
                  /\ sy_extra' = FALSE
             ELSE UNCHANGED <<sy_cache, sy_extra>>
          /\ UNCHANGED <<sy_obasis_desc, sy_wfn>>
          /\ UNCHANGED notsy

\* update_grid(grid): lines 412-414
update_grid ==
    /\ \E grid \in system_grids :
         sy_grid' = IF grid.none THEN sy_grid ELSE grid
    /\ sy_cache' = cache_clear(sy_cache, {"g"})
    /\ sy_op' = "update_grid"
    /\ sy_result' = "ok"
    /\ UNCHANGED <<sy_coordinates, sy_obasis, sy_obasis_desc, sy_wfn, sy_extra>>
    /\ UNCHANGED notsy

\* the argument of update_obasis: a name, a GOBasisDesc, a GOBasis of nbasis
\* functions, None, or something else
obasis_arguments ==
    {[kind |-> k, nbasis |-> n] : k \in {"str", "GOBasisDesc", "GOBasis"}, n \in {1, 2}}
    \cup {[kind |-> "None", nbasis |-> 1], [kind |-> "other", nbasis |-> 0]}

\* update_obasis(obasis): lines 427-466; a description that is kept builds
\* the basis it built before
update_obasis ==
    /\ sy_op' = "update_obasis"
    /\ \E obasis \in obasis_arguments :
         LET fails == \/ obasis.kind = "other"
                      \/ obasis.kind = "None" /\ ~sy_obasis_desc
             nbasis == IF obasis.kind = "None" THEN sy_obasis.nbasis
                       ELSE obasis.nbasis
             had == ~sy_obasis.none
             wfn1 == IF had THEN [none |-> TRUE, nbasis |-> 0] ELSE sy_wfn
         IN IF fails
            THEN /\ sy_result' = "TypeError"
                 /\ UNCHANGED <<sy_obasis, sy_obasis_desc, sy_wfn, sy_cache, sy_extra>>
            ELSE /\ sy_cache' = IF had THEN cache_clear(sy_cache, {"o"}) ELSE sy_cache
                 /\ sy_wfn' = wfn1
                 /\ sy_extra' = IF had THEN FALSE ELSE sy_extra
                 /\ sy_obasis' = GOBasis(sy_coordinates, nbasis)
                 /\ sy_obasis_desc' = (obasis.kind # "GOBasis")
                 /\ sy_result' = IF ~wfn1.none /\ wfn1.nbasis # nbasis
                                 THEN "TypeError" ELSE "ok"
    /\ UNCHANGED <<sy_coordinates, sy_grid>>
    /\ UNCHANGED notsy

\* System(coordinates, numbers, obasis, grid, wfn): an empty cache and extra
InitSystem ==
    /\ sy_coordinates \in system_coordinates
    /\ \/ sy_obasis = No /\ sy_obasis_desc = FALSE
       \/ /\ sy_obasis = GOBasis(sy_coordinates, 1)
          /\ sy_obasis_desc \in BOOLEAN
    /\ sy_grid \in {no_grid} \cup {system_grid(mode, system.numbers, sy_coordinates) :
                                      mode \in {"discard", "keep"}}
    /\ sy_wfn \in {[none |-> TRUE, nbasis |-> 0]}
                  \cup (IF sy_obasis.none THEN {} ELSE {[none |-> FALSE, nbasis |-> 1]})
    /\ sy_cache = {}
    /\ sy_extra = FALSE
    /\ sy_op = "none"
    /\ sy_result = "none"
    /\ policy = "hi"
    /\ threshold = 0
    /\ maxiter = 0
    /\ InitPartIdle
    /\ InitProatomIdle
    /\ InitAgspecIdle
    /\ InitMolgridIdle
    /\ InitBeckeIdle
    /\ InitGreedyIdle
    /\ InitAtgridIdle
    /\ InitMolgridFileIdle

NextSystem ==
    \/ cache_dump
    \/ set_extra
    \/ update_coordinates
    \/ update_grid
    \/ update_obasis

SpecSystem == InitSystem /\ [][NextSystem]_vars

-----------------------------------------------------------------------------
(* Properties of the System cache *)

tagged(class) == {e \in sy_cache : class \in e}

C23_update_coordinates_step ==
    (sy_op' = "update_coordinates" /\ sy_coordinates' # sy_coordinates)
        => tagged("c")' = {}

C23_update_grid_step ==
    sy_op' = "update_grid" =>
        /\ tagged("g")' = {}
        /\ UNCHANGED <<sy_coordinates, sy_obasis, sy_wfn>>

C23_update_obasis_step ==
    (sy_op' = "update_obasis" /\ ~sy_obasis.none /\ sy_obasis' # sy_obasis)
        => tagged("o")' = {}

C23_returned_steps ==
    /\ (sy_op' = "update_coordinates" /\ sy_result' = "ok") => tagged("c")' = {}
    /\ C23_update_grid_step
    /\ (sy_op' = "update_obasis" /\ ~sy_obasis.none /\ sy_result' = "ok")
          => tagged("o")' = {}

\* the calls that return do clear: what is left over is the call of
\* update_coordinates that raises
C23_on_return == [][C23_returned_steps]_vars

C29_coordinates_step ==
    sy_op' = "update_coordinates" =>
        \/ /\ sy_coordinates' = sy_coordinates
           /\ sy_obasis'.centers = sy_obasis.centers
        \/ /\ tagged("c")' = {}
           /\ sy_extra' = FALSE

\* C29: update_coordinates leaves no cache entry of another geometry: after
\* a call, returned or raised, either the coordinates and the centers of the
\* basis are the ones before the call, or no 'c' entry is left and extra is
\* empty.
C29_no_stale_geometry == [][C29_coordinates_step]_vars

-----------------------------------------------------------------------------
(* AtomicGrid (horton/grid/atgrid.py): the shells of one atom.              *)
(*                                                                         *)
(* A point is kept as the direction it started from, the k-th point of the  *)
(* Lebedev-Laikov rule of nll points, and the operations applied to it      *)
(* since: a scaling, a rotation, a shift.  The weights of a rule are kept   *)
(* in units of 1/LebedevDen.                                                *)

\* the rotations get_random_rotation may return
MaxRotations == 2

\* the common denominator of the weights of the rules of 6, 14 and 26 points
LebedevDen == 6 * 140

\* the weights of the rules: 6 x 1/6; 6 x 1/15 and 8 x 3/40; 6 x 1/21,
\* 12 x 4/105 and 8 x 9/280
lebedev_laikov_weights(nll) ==
    IF nll = 6 THEN [k \in 1..6 |-> 140]
    ELSE IF nll = 14 THEN [k \in 1..14 |-> IF k <= 6 THEN 56 ELSE 63]
    ELSE [k \in 1..26 |-> IF k <= 6 THEN 40 ELSE IF k <= 18 THEN 32 ELSE 27]

\* lebedev_laikov_sphere(points, weights): both arrays are overwritten with
\* the rule of len(points) points on the unit sphere
lebedev_laikov_sphere(nll) ==
    [points |-> [k \in 1..nll |-> [dir |-> <<nll, k>>, ops |-> <<>>]],
     weights |-> lebedev_laikov_weights(nll)]

\* rgrid.radii and rgrid.weights of shell i
rgrid_radii(rgrid, i) == rgrid.rtransform.rmin + i - 1

rgrid_weights(rgrid, i) == rgrid_weight(i)

\* np.zeros((size, 3), float): size points at the origin
zero_points(size) == [p \in 1..size |-> [dir |-> <<0, 0>>, ops |-> <<>>]]

\* an in-place operation on every point of an array
points_op(points, op) ==
    [p \in 1..Len(points) |-> [points[p] EXCEPT !.ops = Append(@, op)]]

shell_points_kept(my_points, nll, radius, rotation) ==
    LET scaled == points_op(my_points, <<"times", radius>>)
    IN IF rotation # 0 THEN points_op(scaled, <<"dot", rotation>>) ELSE scaled

\* lines 108-112: the points of one shell; rotation 0 is no rotation
shell_points(my_points, nll, radius, rotation) ==
    LET scaled == points_op(lebedev_laikov_sphere(nll).points, <<"times", radius>>)
    IN IF rotation # 0 THEN points_op(scaled, <<"dot", rotation>>) ELSE scaled

shell_weights_unscaled(my_av_weights, rweight) == my_av_weights

\* lines 113-114: my_weights[:] = my_av_weights; my_weights *= rweights[i]
shell_weights(my_av_weights, rweight) ==
    [k \in 1..Len(my_av_weights) |-> my_av_weights[k] * rweight]

\* points[a:b]
slice(arr, a, b) == [k \in 1..(b - a) |-> arr[a + k]]

\* the loop of _init_low over the shells, lines 102-116
RECURSIVE init_low_shells(_, _, _, _, _, _, _, _)
init_low_shells(i, offset, points, weights, av_weights, rgrid, nlls, rotations) ==
    IF i > Len(nlls)
    THEN [points |-> points, weights |-> weights, av_weights |-> av_weights]
    ELSE LET nll == nlls[i]
             my_points == shell_points(slice(points, offset, offset + nll), nll,
                                       rgrid_radii(rgrid, i), rotations[i])
             my_av_weights == lebedev_laikov_sphere(nll).weights
             my_weights == shell_weights(my_av_weights, rgrid_weights(rgrid, i))
         IN init_low_shells(i + 1, offset + nll,
                            assign_slice(points, offset, offset + nll, my_points),
                            assign_slice(weights, offset, offset + nll, my_weights),
                            assign_slice(av_weights, offset, offset + nll, my_av_weights),
                            rgrid, nlls, rotations)

\* AtomicGrid._init_low(points, weights): the shells, then points[:] += center
init_low(points, weights, av_weights, rgrid, nlls, center, rotations) ==
    LET shells == init_low_shells(1, 0, points, weights, av_weights, rgrid, nlls,
                                  rotations)
    IN [shells EXCEPT !.points = points_op(@, <<"plus", center>>)]

\* one rotation for every shell when random_rotate is set, none otherwise
rotations_of(random_rotate, nlls) ==
    IF random_rotate THEN [1..Len(nlls) -> 1..MaxRotations]
    ELSE {[i \in 1..Len(nlls) |-> 0]}

\* the record of the AtomicGridSpec for the atom of the grid
atgrid_record == agspec_get(molgrid_agspec.members, atg_number, atg_pseudo_number)

\* AtomicGrid(number, pseudo_number, center, agspec, random_rotate, points)
atgrid_construct ==
    /\ atg_pc = "none"
    /\ LET got == atgrid_record
           size == SumSeq(got.nlls)
       IN IF got.tag # "ok"
          THEN /\ atg_pc' = "raised"
               /\ atg_result' = got.tag
               /\ UNCHANGED <<atg_nlls, atg_points, atg_weights, atg_av_weights>>
          ELSE IF ~atg_buffer.none /\ atg_buffer.len # size
          THEN /\ atg_pc' = "raised"
               /\ atg_result' = "AssertionError"
               /\ atg_nlls' = got.nlls
               /\ UNCHANGED <<atg_points, atg_weights, atg_av_weights>>
          ELSE \E rotations \in rotations_of(atg_random_rotate, got.nlls) :
                  LET g == init_low(zero_points(size), zeros(size), zeros(size),
                                    got.rgrid, got.nlls, atg_center, rotations)
                  IN /\ atg_pc' = "ready"
                     /\ atg_result' = "ok"
                     /\ atg_nlls' = got.nlls
                     /\ atg_points' = g.points
                     /\ atg_weights' = g.weights
                     /\ atg_av_weights' = g.av_weights
    /\ UNCHANGED <<atg_number, atg_pseudo_number, atg_center, atg_random_rotate,
                   atg_buffer, atg_updates>>
    /\ UNCHANGED notatg

\* AtomicGrid.update_center(center)
update_center ==
    /\ atg_pc = "ready"
    /\ atg_updates < MaxUpdates
    /\ atg_updates' = atg_updates + 1
    /\ \E center \in 0..MaxCoordinate,
          rotations \in rotations_of(atg_random_rotate, atg_nlls) :
         LET g == init_low(atg_points, atg_weights, atg_av_weights,
                           atgrid_record.rgrid, atg_nlls, center, rotations)
         IN /\ atg_center' = center
            /\ atg_points' = g.points
            /\ atg_weights' = g.weights
            /\ atg_av_weights' = g.av_weights
    /\ UNCHANGED <<atg_number, atg_pseudo_number, atg_random_rotate, atg_buffer,
                   atg_pc, atg_result, atg_nlls>>
    /\ UNCHANGED notatg

\* the atoms an AtomicGrid is made for and the lengths of the buffers given
atgrid_atoms == {<<1, 1>>, <<3, 3>>, <<3, 1>>, <<3, 2>>, <<2, 2>>}

atgrid_buffers ==
    {[none |-> TRUE, len |-> 0]}
    \cup {[none |-> FALSE, len |-> n] : n \in {0, 5, 6, 7, 12, 20, 21}}

InitAtgrid ==
    /\ \E a \in atgrid_atoms : atg_number = a[1] /\ atg_pseudo_number = a[2]
    /\ atg_center \in 0..MaxCoordinate
    /\ atg_random_rotate \in BOOLEAN
    /\ atg_buffer \in atgrid_buffers
    /\ atg_pc = "none"
    /\ atg_result = "none"
    /\ atg_nlls = <<>>
    /\ atg_points = <<>>
    /\ atg_weights = <<>>
    /\ atg_av_weights = <<>>
    /\ atg_updates = 0
    /\ policy = "hi"
    /\ threshold = 0
    /\ maxiter = 0
    /\ InitPartIdle
    /\ InitProatomIdle
    /\ InitAgspecIdle
    /\ InitMolgridIdle
    /\ InitBeckeIdle
    /\ InitGreedyIdle
    /\ InitSystemIdle
    /\ InitMolgridFileIdle

NextAtgrid ==
    \/ atgrid_construct
    \/ update_center

SpecAtgrid == InitAtgrid /\ [][NextAtgrid]_vars

-----------------------------------------------------------------------------
(* Properties of AtomicGrid *)

\* the number of points before shell i
RECURSIVE shell_offset(_, _)
shell_offset(nlls, i) == IF i <= 1 THEN 0 ELSE shell_offset(nlls, i - 1) + nlls[i - 1]

\* C21: points, weights and av_weights of an AtomicGrid have the length of
\* the sum of the angular counts; the shells take consecutive ranges in
\* their order; in shell i every weight is the av_weight times the radial
\* weight of the shell, and the av_weights of the shell sum to 1; a points
\* buffer of another length is rejected.
C21_shell_layout ==
    /\ atg_pc = "ready" =>
          LET size == SumSeq(atg_nlls)
              rgrid == atgrid_record.rgrid
          IN /\ Len(atg_points) = size
             /\ Len(atg_weights) = size
             /\ Len(atg_av_weights) = size
             /\ atg_buffer.none \/ atg_buffer.len = size
             /\ \A i \in 1..Len(atg_nlls) :
                   LET a == shell_offset(atg_nlls, i)
                       b == a + atg_nlls[i]
                   IN /\ \A p \in (a + 1)..b :
                            /\ atg_points[p].dir = <<atg_nlls[i], p - a>>
                            /\ atg_points[p].ops[1] = <<"times", rgrid_radii(rgrid, i)>>
                            /\ atg_weights[p]
                                  = atg_av_weights[p] * rgrid_weights(rgrid, i)
                      /\ SumSeq(slice(atg_av_weights, a, b)) = LebedevDen
    /\ (atg_pc # "none" /\ atgrid_record.tag = "ok" /\ ~atg_buffer.none
           /\ atg_buffer.len # SumSeq(atgrid_record.nlls))
          => atg_pc = "raised" /\ atg_result = "AssertionError"

C21_two_shells_in_a_buffer ==
    /\ atg_pc = "ready"
    /\ Len(atg_nlls) = 2
    /\ atg_nlls[1] # atg_nlls[2]
    /\ ~atg_buffer.none
    /\ atg_weights[Len(atg_weights)] # atg_av_weights[Len(atg_weights)]

\* an AtomicGrid made at the center of the moment, without rotation
fresh_atgrid ==
    LET size == SumSeq(atg_nlls)
    IN init_low(zero_points(size), zeros(size), zeros(size), atgrid_record.rgrid,
                atg_nlls, atg_center, [i \in 1..Len(atg_nlls) |-> 0])

C22_same_as_fresh ==
    (atg_pc = "ready" /\ ~atg_random_rotate) =>
        /\ atg_points = fresh_atgrid.points
        /\ atg_weights = fresh_atgrid.weights
        /\ atg_av_weights = fresh_atgrid.av_weights

C22_update_step ==
    atg_updates' = atg_updates + 1 =>
        /\ atg_weights' = atg_weights
        /\ atg_av_weights' = atg_av_weights

\* C22: without random rotation, after any sequence of update_center calls
\* the points, weights and av_weights are those of an AtomicGrid made at the
\* last center; with or without rotation update_center leaves the weights
\* and the av_weights as they were.
C22_update_center_is_rebuild == []C22_same_as_fresh /\ [][C22_update_step]_vars

C22_moved_twice ==
    /\ atg_pc = "ready"
    /\ ~atg_random_rotate
    /\ atg_updates >= 2
    /\ Len(atg_nlls) = 2
    /\ atg_points[1].ops = <<<<"times", rgrid_radii(atgrid_record.rgrid, 1)>>,
                             <<"plus", atg_center>>>>

-----------------------------------------------------------------------------
(* BeckeMolGrid.to_hdf5 and from_hdf5 (horton/grid/molgrid.py).             *)
(*                                                                         *)
(* The points and weights of the grid are those of the BeckeMolGrid section *)
(* above; here the grid is what the file is made of: the atoms, the         *)
(* AtomicGridSpec, and the record of the specification each atom resolved   *)
(* to when the grid was built.                                              *)

\* the AtomicGridSpec without a record for the Li core: (1, 1) and (3, 3)
agspec_all_electron ==
    CHOOSE o \in init_members_from_list(
        <<member(1, 1, rgrid_b, array_nlls(<<6>>)),
          member(3, 3, rgrid_a, array_nlls(lebedev_counts(MaxShells)))>>) : TRUE

\* the tuple form: one record for every element, with pseudo_number = number
agspec_uniform ==
    CHOOSE o \in init_members_from_tuple(rgrid_b, scalar_nlls(6)) : TRUE

molgrid_agspecs ==
    {molgrid_agspec.members, agspec_all_electron.members, agspec_uniform.members}

\* lines 104-107 and 127-131: agspec.get for every atom
molgrid_records(members, molecule) ==
    [i \in 1..Len(molecule.numbers) |->
        agspec_get(members, molecule.numbers[i], molecule.pseudo_numbers[i])]

\* BeckeMolGrid(molecule, agspec, k, random_rotate, mode): the exception it
\* raises ("ok": none) and the records of its atoms
molgrid_outcome(members, molecule, mode) ==
    LET records == molgrid_records(members, molecule)
    IN IF mode \notin {"discard", "keep", "only"}
       THEN [tag |-> "ValueError", records |-> <<>>]
       ELSE IF \E i \in 1..Len(records) : records[i].tag # "ok"
       THEN [tag |-> records[CHOOSE i \in 1..Len(records) :
                         /\ records[i].tag # "ok"
                         /\ \A j \in 1..(i - 1) : records[j].tag = "ok"].tag,
             records |-> <<>>]
       ELSE [tag |-> "ok", records |-> records]

molgrid_construct ==
    /\ h5_pc = "none"
    /\ LET g == molgrid_outcome(h5_agspec, h5_molecule, h5_mode)
       IN /\ h5_pc' = IF g.tag = "ok" THEN "ready" ELSE "raised"
          /\ h5_records' = g.records
    /\ h5_op' = "__init__"
    /\ UNCHANGED <<h5_molecule, h5_agspec, h5_mode, h5_grp, h5_reloaded>>
    /\ UNCHANGED noth5

\* set(zip(*selection)) of the selection (numbers, pseudo_numbers)
selection_of(numbers, pseudo_numbers) ==
    [none |-> FALSE,
     pairs |-> {<<numbers[i], pseudo_numbers[i]>> : i \in 1..Len(numbers)}]

\* BeckeMolGrid.to_hdf5(grp) on an empty group
molgrid_to_hdf5 ==
    /\ h5_pc = "ready"
    /\ h5_grp = <<>>
    /\ h5_op' = "to_hdf5"
    /\ h5_grp' = [centers |-> h5_molecule.coordinates,
                  numbers |-> h5_molecule.numbers,
                  psuedo_numbers |-> h5_molecule.pseudo_numbers,
                  agspec |-> to_hdf5(<<>>, h5_agspec.table,
                                     selection_of(h5_molecule.numbers,
                                                  h5_molecule.pseudo_numbers)),
                  random_rotate |-> TRUE,
                  k |-> DefaultOrder,
                  mode |-> h5_mode]
    /\ UNCHANGED <<h5_molecule, h5_agspec, h5_mode, h5_pc, h5_records, h5_reloaded>>
    /\ UNCHANGED noth5

\* BeckeMolGrid.from_hdf5(grp, lf) on the group written
molgrid_from_hdf5 ==
    /\ h5_grp # <<>>
    /\ h5_grp.agspec.tag = "ok"
    /\ h5_op' = "from_hdf5"
    /\ \E o \in from_hdf5(h5_grp.agspec.datasets) :
         h5_reloaded' =
            IF o.tag # "ok" THEN [tag |-> o.tag, records |-> <<>>]
            ELSE molgrid_outcome(o.members,
                                 System(h5_grp.centers, h5_grp.numbers,
                                        h5_grp.psuedo_numbers),
                                 h5_grp.mode)
    /\ UNCHANGED <<h5_molecule, h5_agspec, h5_mode, h5_pc, h5_records, h5_grp>>
    /\ UNCHANGED noth5

InitMolgridFile ==
    /\ h5_molecule \in systems
    /\ h5_agspec \in molgrid_agspecs
    /\ h5_mode \in {"discard", "keep", "only", "all"}
    /\ h5_pc = "none"
    /\ h5_records = <<>>
    /\ h5_grp = <<>>
    /\ h5_reloaded = <<>>
    /\ h5_op = "none"
    /\ policy = "hi"
    /\ threshold = 0
    /\ maxiter = 0
    /\ InitPartIdle
    /\ InitProatomIdle
    /\ InitAgspecIdle
    /\ InitMolgridIdle
    /\ InitBeckeIdle
    /\ InitGreedyIdle
    /\ InitSystemIdle
    /\ InitAtgridIdle

NextMolgridFile ==
    \/ molgrid_construct
    \/ molgrid_to_hdf5
    \/ molgrid_from_hdf5

SpecMolgridFile == InitMolgridFile /\ [][NextMolgridFile]_vars

-----------------------------------------------------------------------------
(* Properties of the BeckeMolGrid file *)

\* what a record is for the grid of an atom: the radial transform and the
\* angular counts
record_of(r) == <<r.rgrid.rtransform, r.nlls>>

\* C30: a BeckeMolGrid that could be built is written by to_hdf5 and read
\* back by from_hdf5 without an error, and the specification read back gives
\* every atom the (radial grid, angular counts) record the original gave it,
\* also an atom whose pseudo_number is below the threshold of its record.
C30_file_round_trip ==
    h5_op = "from_hdf5" =>
        /\ h5_reloaded.tag = "ok"
        /\ \A i \in 1..Len(h5_records) :
              record_of(h5_reloaded.records[i]) = record_of(h5_records[i])

====
